---------------------------- MODULE Loops_proofs ----------------------------
(***************************************************************************)
(* The closed forms of group_only, group_alltoggle and client_cycle are    *)
(* what the loops of the code leave, for any number of groups, any windows *)
(* and any screen to begin with: Loops implements OneStep, as far as       *)
(* safety goes.                                                            *)
(***************************************************************************)
EXTENDS Loops, Cwm_proofs, Lists_proofs

----------------------------------------------------------------------------
(* Screens that differ in the order of unread events only.                 *)

LoopEvents == [type : EventTypes, win : Windows]

\* The events of a set of windows are one for each.
LEMMA EventsOf ==
  ASSUME NEW W \in SUBSET Windows, NEW type \in EventTypes
  PROVE  LET q == Events(type, W)
         IN /\ q \in Seq(LoopEvents)
            /\ ToSet(q) = {Event(type, w) : w \in W}
            /\ IsFiniteSet(W) /\ Len(q) = Cardinality(W)
<1> DEFINE q == SetToSeq(W)
           r == Events(type, W)
           n == Cardinality(W)
<1>1. IsFiniteSet(W) /\ n \in Nat
  BY ClientsAssumption, FS_Subset, FS_CardinalityType
<1>2. q \in Seq(W) /\ ToSet(q) = W
  BY <1>1, SetListed
<1>3. Len(q) = n
  <2>1. PICK m \in Nat : m = Cardinality(W)
    BY <1>1
  <2>2. PICK f \in [1 .. m -> W] : IsInjective(f)
    BY <1>1, <2>1, FS_CardinalityType DEF ExistsBijection, Bijection, Injection
  <2>3. q \in [1 .. m -> W]
    BY <2>1, <2>2 DEF SetToSeq
  <2> HIDE DEF q
  <2> QED
    BY <2>1, <2>3
<1>4. r = [i \in DOMAIN q |-> Event(type, q[i])]
  BY DEF Events
<1>5. DOMAIN q = 1 .. n
  BY <1>2, <1>3
<1> HIDE DEF q, n, r
<1>6. \A i \in 1 .. n : q[i] \in W
  BY <1>2, <1>5 DEF ToSet
<1>7. r \in Seq(LoopEvents)
  BY EventsType DEF LoopEvents, r
<1>8. DOMAIN r = 1 .. n /\ Len(r) = n
  BY <1>1, <1>4, <1>5, <1>7
<1>9. ToSet(r) = {Event(type, w) : w \in W}
  <2>1. ToSet(r) = {r[i] : i \in 1 .. n} /\ W = {q[i] : i \in 1 .. n}
    BY <1>2, <1>5, <1>8 DEF ToSet
  <2>2. \A i \in 1 .. n : r[i] = Event(type, q[i])
    BY <1>4, <1>5
  <2> QED
    BY <2>1, <2>2
<1> QED
  BY <1>1, <1>7, <1>8, <1>9 DEF r, n

\* All that a screen holds but the unread events.
SameButEvents(s, t) ==
  /\ t.clientq = s.clientq /\ t.flags = s.flags /\ t.group = s.group
  /\ t.members = s.members /\ t.hidden_groups = s.hidden_groups
  /\ t.group_current = s.group_current /\ t.hideall = s.hideall
  /\ t.cycling = s.cycling /\ t.curcc = s.curcc /\ t.alive = s.alive
  /\ t.app = s.app /\ t.mapped = s.mapped /\ t.wm_state = s.wm_state
  /\ t.wm_desktop = s.wm_desktop /\ t.net_active = s.net_active
  /\ t.net_desktop = s.net_desktop /\ t.net_clients = s.net_clients

Like(s, t) ==
  /\ s \in State /\ t \in State
  /\ SameButEvents(s, t)
  /\ ToSet(t.evq) = ToSet(s.evq) /\ Len(t.evq) = Len(s.evq)

\* Likeness is reflexive.
LEMMA LikeItself ==
  ASSUME NEW s \in State
  PROVE  Like(s, s)
BY DEF Like, SameButEvents

\* Likeness is transitive and symmetric.
LEMMA LikeEachOther ==
  ASSUME NEW s, NEW t, NEW u, Like(s, t), Like(t, u)
  PROVE  Like(s, u) /\ Like(t, s)
BY DEF Like, SameButEvents

\* It is what OneStep asks for.
LEMMA LikeSame ==
  ASSUME NEW s, NEW t, Like(s, t)
  PROVE  Atomic!SameScreen(t, s)
<1> DEFINE a == [s EXCEPT !.evq = <<>>]
           b == [t EXCEPT !.evq = <<>>]
<1>1. a = b
  <2>1. SameButEvents(s, t) /\ s \in State /\ t \in State
    BY DEF Like
  <2> QED
    BY <2>1 DEF SameButEvents, State
<1> QED
  BY <1>1 DEF Atomic!SameScreen, Atomic!ToSet, ToSet, Like

----------------------------------------------------------------------------
(* Hiding.                                                                 *)

\* What client_hide assigns, the rest.
LEMMA HideAllMore ==
  ASSUME NEW s \in State, NEW W \in SUBSET Clients
  PROVE  LET t == HideAll(s, W)
             L == {c \in W : ~Has(s, c, "STICKY")}
         IN /\ t \in State
            /\ t.hidden_groups = s.hidden_groups /\ t.alive = s.alive
            /\ t.wm_state = SetProperty(s, s.wm_state, L, "Iconic")
            /\ t.evq = s.evq \o Events("UnmapNotify",
                                       {w \in L \cap Windows : s.mapped[w]})
BY HideAllType DEF HideAll, State

\* Appended events: what matters of two queues is what matters of the parts.
LEMMA AppendedEvents ==
  ASSUME NEW s \in State, NEW U \in SUBSET Windows
  PROVE  LET q == s.evq \o Events("UnmapNotify", U)
         IN /\ ToSet(q) = ToSet(s.evq) \cup {Event("UnmapNotify", w) : w \in U}
            /\ Len(q) = Len(s.evq) + Cardinality(U)
            /\ IsFiniteSet(U) /\ Len(s.evq) \in Nat
<1>1. s.evq \in Seq(LoopEvents)
  BY DEF State, LoopEvents
<1> DEFINE e == Events("UnmapNotify", U)
<1>2. /\ e \in Seq(LoopEvents) /\ ToSet(e) = {Event("UnmapNotify", w) : w \in U}
      /\ IsFiniteSet(U) /\ Len(e) = Cardinality(U)
  BY EventsOf DEF EventTypes
<1> HIDE DEF e
<1>3. ToSet(s.evq \o e) = ToSet(s.evq) \cup ToSet(e)
  BY <1>1, <1>2, JoinedElements
<1>4. Len(s.evq \o e) = Len(s.evq) + Len(e) /\ Len(s.evq) \in Nat
  BY <1>1, <1>2
<1> QED
  BY <1>2, <1>3, <1>4 DEF e

\* Hiding takes like screens to like screens, and no notice of sticky clients.
LEMMA HideAllLike ==
  ASSUME NEW s, NEW t, Like(s, t),
         NEW V \in SUBSET Clients, NEW W \in SUBSET Clients,
         \A c \in Clients : ~Has(s, c, "STICKY") => (c \in V <=> c \in W)
  PROVE  Like(HideAll(s, V), HideAll(t, W))
<1> DEFINE a == HideAll(s, V)
           b == HideAll(t, W)
           L == {c \in V : ~Has(s, c, "STICKY")}
           U == {w \in L \cap Windows : s.mapped[w]}
<1>1. s \in State /\ t \in State /\ SameButEvents(s, t)
  BY DEF Like
<1>2. L = {c \in W : ~Has(t, c, "STICKY")} /\ U = {w \in L \cap Windows : t.mapped[w]}
  BY <1>1 DEF SameButEvents, Has
<1>3. /\ SameDesks(s, a) /\ a.cycling = s.cycling
      /\ a.flags = Reflag(s.flags, L, {"ACTIVE"}, {"HIDDEN"})
      /\ a.mapped = [w \in Windows |-> s.mapped[w] /\ w \notin L]
      /\ a.curcc = IF s.curcc \in L THEN NoClient ELSE s.curcc
      /\ a.net_active = IF s.curcc \in L THEN NoClient ELSE s.net_active
      /\ a.members = s.members /\ a.hideall = s.hideall
  BY <1>1, HideAllFields
<1>4. /\ SameDesks(t, b) /\ b.cycling = t.cycling
      /\ b.flags = Reflag(t.flags, L, {"ACTIVE"}, {"HIDDEN"})
      /\ b.mapped = [w \in Windows |-> t.mapped[w] /\ w \notin L]
      /\ b.curcc = IF t.curcc \in L THEN NoClient ELSE t.curcc
      /\ b.net_active = IF t.curcc \in L THEN NoClient ELSE t.net_active
      /\ b.members = t.members /\ b.hideall = t.hideall
  <2> DEFINE X == {c \in W : ~Has(t, c, "STICKY")}
  <2>1. L = X
    BY <1>2
  <2>2. /\ SameDesks(t, b) /\ b.cycling = t.cycling
        /\ b.flags = Reflag(t.flags, X, {"ACTIVE"}, {"HIDDEN"})
        /\ b.mapped = [w \in Windows |-> t.mapped[w] /\ w \notin X]
        /\ b.curcc = IF t.curcc \in X THEN NoClient ELSE t.curcc
        /\ b.net_active = IF t.curcc \in X THEN NoClient ELSE t.net_active
        /\ b.members = t.members /\ b.hideall = t.hideall
    BY <1>1, HideAllFields
  <2> HIDE DEF L, X, b
  <2> QED
    BY <2>1, <2>2
<1>5. /\ a \in State /\ a.hidden_groups = s.hidden_groups /\ a.alive = s.alive
      /\ a.wm_state = SetProperty(s, s.wm_state, L, "Iconic")
      /\ a.evq = s.evq \o Events("UnmapNotify", U)
  BY <1>1, HideAllMore
<1>6. /\ b \in State /\ b.hidden_groups = t.hidden_groups /\ b.alive = t.alive
      /\ b.wm_state = SetProperty(t, t.wm_state, L, "Iconic")
      /\ b.evq = t.evq \o Events("UnmapNotify", U)
  <2> DEFINE X == {c \in W : ~Has(t, c, "STICKY")}
             Y == {w \in X \cap Windows : t.mapped[w]}
  <2>1. L = X /\ U = Y
    BY <1>2
  <2>2. /\ b \in State /\ b.hidden_groups = t.hidden_groups /\ b.alive = t.alive
        /\ b.wm_state = SetProperty(t, t.wm_state, X, "Iconic")
        /\ b.evq = t.evq \o Events("UnmapNotify", Y)
    BY <1>1, HideAllMore
  <2> HIDE DEF L, U, X, Y, b
  <2> QED
    BY <2>1, <2>2
<1>7. SetProperty(t, t.wm_state, L, "Iconic") = SetProperty(s, s.wm_state, L, "Iconic")
  BY <1>1 DEF SetProperty, SameButEvents
<1>8. ToSet(b.evq) = ToSet(a.evq) /\ Len(b.evq) = Len(a.evq)
  <2>1. U \in SUBSET Windows
    OBVIOUS
  <2> HIDE DEF U, a, b
  <2> QED
    BY <1>1, <1>5, <1>6, <2>1, AppendedEvents DEF Like
<1> HIDE DEF a, b, L, U
<1>9. SameButEvents(a, b)
  BY <1>1, <1>3, <1>4, <1>5, <1>6, <1>7 DEF SameButEvents, SameDesks
<1> QED
  BY <1>5, <1>6, <1>8, <1>9 DEF Like, a, b

----------------------------------------------------------------------------
(* The operators of Groups, as OneStep sees them.                          *)

\* The sets of the instance are those of Clients and Groups.
LEMMA AtomicClients ==
  /\ Atomic!Clients = Clients /\ Atomic!Groups = Groups
  /\ Atomic!NoGroup = NoGroup /\ Atomic!State = State
BY DEF Atomic!Clients, Clients, Atomic!Groups, Groups, Atomic!NoGroup, NoGroup,
       Atomic!State, State, Atomic!Flags, Flags, Atomic!EventTypes, EventTypes

\* client_hide of the instance is client_hide.
LEMMA AtomicHide ==
  ASSUME NEW s, NEW W
  PROVE  Atomic!HideAll(s, W) = HideAll(s, W)
<1>1. \A f, V, del, add : Atomic!Reflag(f, V, del, add) = Reflag(f, V, del, add)
  BY AtomicClients DEF Atomic!Reflag, Reflag
<1>2. \A t, p, V, v : Atomic!SetProperty(t, p, V, v) = SetProperty(t, p, V, v)
  BY DEF Atomic!SetProperty, SetProperty
<1>3. \A type, V : Atomic!Events(type, V) = Events(type, V)
  BY Zenon
     DEF Atomic!Events, Events, Atomic!SetToSeq, SetToSeq, Atomic!Event, Event,
         Atomic!Cardinality, Cardinality, Atomic!IsInjective, IsInjective
<1>4. \A t, c, flag : Atomic!Has(t, c, flag) = Has(t, c, flag)
  BY DEF Atomic!Has, Has
<1> QED
  BY <1>1, <1>2, <1>3, <1>4 DEF Atomic!HideAll, HideAll

\* So is client_unhide.
LEMMA AtomicUnhide ==
  ASSUME NEW s, NEW W
  PROVE  Atomic!UnhideAll(s, W) = UnhideAll(s, W)
<1>1. \A f, V, del, add : Atomic!Reflag(f, V, del, add) = Reflag(f, V, del, add)
  BY AtomicClients DEF Atomic!Reflag, Reflag
<1>2. \A t, p, V, v : Atomic!SetProperty(t, p, V, v) = SetProperty(t, p, V, v)
  BY DEF Atomic!SetProperty, SetProperty
<1>3. \A t, c, flag : Atomic!Has(t, c, flag) = Has(t, c, flag)
  BY DEF Atomic!Has, Has
<1> QED
  BY <1>1, <1>2, <1>3 DEF Atomic!UnhideAll, UnhideAll

\* So is group_assign.
LEMMA AtomicAssign ==
  ASSUME NEW s, NEW W, NEW g
  PROVE  Atomic!AssignAll(s, W, g) = AssignAll(s, W, g)
<1>1. \A t, p, V, v : Atomic!SetProperty(t, p, V, v) = SetProperty(t, p, V, v)
  BY DEF Atomic!SetProperty, SetProperty
<1> QED
  BY <1>1, AtomicClients DEF Atomic!AssignAll, AssignAll

\* The sticky clients are the same.
LEMMA AtomicSticky ==
  ASSUME NEW s
  PROVE  Atomic!StickyClients(s) = StickyClients(s)
BY DEF Atomic!StickyClients, StickyClients, Atomic!Managed, Managed, Atomic!ToSet,
       ToSet, Atomic!Has, Has

\* So the result OneStep gives group_only is that of Groups,
LEMMA AtomicGroupOnly ==
  ASSUME NEW s, NEW g
  PROVE  Atomic!GroupOnly(s, g) = GroupOnly(s, g)
<1>1. \A t : Atomic!GroupSetActive(t, g) = GroupSetActive(t, g)
  BY DEF Atomic!GroupSetActive, GroupSetActive
<1>2. \A t : Atomic!GroupShow(t, g) = GroupShow(t, g)
  BY AtomicUnhide, AtomicAssign, AtomicSticky DEF Atomic!GroupShow, GroupShow
<1> QED
  BY <1>1, <1>2, AtomicHide, AtomicClients DEF Atomic!GroupOnly, GroupOnly

\* that of group_alltoggle too,
LEMMA AtomicGroupAllToggle ==
  ASSUME NEW s
  PROVE  Atomic!GroupAllToggle(s) = GroupAllToggle(s)
<1>1. \A t, W : Atomic!HideAll(t, W) = HideAll(t, W)
  BY AtomicHide
<1>2. \A t, W : Atomic!UnhideAll(t, W) = UnhideAll(t, W)
  BY AtomicUnhide
<1>3. \A t, W, g : Atomic!AssignAll(t, W, g) = AssignAll(t, W, g)
  BY AtomicAssign
<1>4. \A t : Atomic!StickyClients(t) = StickyClients(t)
  BY AtomicSticky
<1> DEFINE full  == {g \in Groups : s.members[g] # {}}
           solid == {g \in full : ~(s.members[g] \subseteq StickyClients(s))}
           asolid == {g \in full : ~(s.members[g] \subseteq Atomic!StickyClients(s))}
<1>5. asolid = solid
  BY <1>4
<1> QED
  BY <1>1, <1>2, <1>3, <1>4, <1>5, SMTT(30)
     DEF Atomic!GroupAllToggle, GroupAllToggle, Atomic!Groups, Groups

\* and that of client_cycle is that of Clients.
LEMMA AtomicCycle ==
  ASSUME NEW s, NEW dir, NEW ingroup
  PROVE  Atomic!Cycle(s, dir, ingroup) = Cycle(s, dir, ingroup)
<1>1. Atomic!CycleTarget(s, dir, ingroup) = CycleTarget(s, dir, ingroup)
  BY DEF Atomic!CycleTarget, CycleTarget
<1>2. \A t, c : Atomic!PtrWarp(t, c) = PtrWarp(t, c)
  BY AtomicUnhide DEF Atomic!PtrWarp, PtrWarp, Atomic!Unhide, Unhide, Atomic!Has, Has
<1> QED
  BY <1>1, <1>2 DEF Atomic!Cycle, Cycle

----------------------------------------------------------------------------
(* Showing and joining groups.                                             *)

\* What client_unhide and group_assign leave alone.
LEMMA UnhideAllMore ==
  ASSUME NEW s \in State, NEW W \in SUBSET Clients
  PROVE  LET t == UnhideAll(s, W)
             L == {c \in W : ~Has(s, c, "STICKY")}
         IN /\ t \in State
            /\ t.hidden_groups = s.hidden_groups /\ t.alive = s.alive
            /\ t.wm_state = SetProperty(s, s.wm_state, L, "Normal")
            /\ t.evq = s.evq
BY UnhideAllType DEF UnhideAll, State

\* What group_assign leaves alone, and the lists it leaves.
LEMMA AssignAllMore ==
  ASSUME NEW s \in State, NEW W \in SUBSET Clients, NEW g \in Groups
  PROVE  LET t == AssignAll(s, W, g)
         IN /\ t \in State
            /\ t.hidden_groups = s.hidden_groups /\ t.alive = s.alive
            /\ t.wm_state = s.wm_state /\ t.evq = s.evq
            /\ t.members = [h \in Groups |->
                              IF h = g THEN s.members[h] \cup W
                              ELSE s.members[h] \ {c \in W : s.group[c] = h}]
BY AssignAllType DEF AssignAll, State

\* group_setactive changes the current group, and its property, only.
LEMMA GroupSetActiveFields ==
  ASSUME NEW s \in State, NEW g \in Groups
  PROVE  LET t == GroupSetActive(s, g)
         IN /\ t \in State
            /\ t.group_current = g /\ t.net_desktop = g
            /\ t.clientq = s.clientq /\ t.flags = s.flags /\ t.group = s.group
            /\ t.members = s.members /\ t.hidden_groups = s.hidden_groups
            /\ t.hideall = s.hideall
            /\ t.cycling = s.cycling /\ t.curcc = s.curcc /\ t.alive = s.alive
            /\ t.app = s.app /\ t.mapped = s.mapped /\ t.wm_state = s.wm_state
            /\ t.wm_desktop = s.wm_desktop /\ t.net_active = s.net_active
            /\ t.net_clients = s.net_clients /\ t.evq = s.evq
BY GroupSetActiveType DEF GroupSetActive, State

\* What client_hide leaves, field by field.
Hidden(s, L, t) ==
  /\ t.clientq = s.clientq /\ t.group = s.group
  /\ t.flags = Reflag(s.flags, L, {"ACTIVE"}, {"HIDDEN"})
  /\ t.members = s.members /\ t.hidden_groups = s.hidden_groups
  /\ t.group_current = s.group_current /\ t.hideall = s.hideall
  /\ t.cycling = s.cycling /\ t.alive = s.alive /\ t.app = s.app
  /\ t.curcc = IF s.curcc \in L THEN NoClient ELSE s.curcc
  /\ t.net_active = IF s.curcc \in L THEN NoClient ELSE s.net_active
  /\ t.mapped = [w \in Windows |-> s.mapped[w] /\ w \notin L]
  /\ t.wm_state = SetProperty(s, s.wm_state, L, "Iconic")
  /\ t.wm_desktop = s.wm_desktop
  /\ t.net_desktop = s.net_desktop /\ t.net_clients = s.net_clients

\* client_hide of several clients leaves them Hidden, the sticky ones apart.
LEMMA HideAllHidden ==
  ASSUME NEW s \in State, NEW W \in SUBSET Clients
  PROVE  Hidden(s, {c \in W : ~Has(s, c, "STICKY")}, HideAll(s, W))
<1> DEFINE t == HideAll(s, W)
           L == {c \in W : ~Has(s, c, "STICKY")}
<1>1. /\ SameDesks(s, t) /\ t.cycling = s.cycling
      /\ t.flags = Reflag(s.flags, L, {"ACTIVE"}, {"HIDDEN"})
      /\ t.mapped = [w \in Windows |-> s.mapped[w] /\ w \notin L]
      /\ t.curcc = IF s.curcc \in L THEN NoClient ELSE s.curcc
      /\ t.net_active = IF s.curcc \in L THEN NoClient ELSE s.net_active
      /\ t.members = s.members /\ t.hideall = s.hideall
  BY HideAllFields
<1>2. /\ t.hidden_groups = s.hidden_groups /\ t.alive = s.alive
      /\ t.wm_state = SetProperty(s, s.wm_state, L, "Iconic")
  BY HideAllMore
<1> HIDE DEF t, L
<1>3. Hidden(s, L, t)
  BY <1>1, <1>2 DEF Hidden, SameDesks
<1> QED
  BY <1>3 DEF t, L

\* Hiding some clients, then others, is hiding them all.
LEMMA HideTwice ==
  ASSUME NEW s \in State, NEW V \in SUBSET Clients, NEW W \in SUBSET Clients
  PROVE  Like(HideAll(s, V \cup W), HideAll(HideAll(s, V), W))
<1> DEFINE a == HideAll(s, V)
           b == HideAll(a, W)
           d == HideAll(s, V \cup W)
           L == {c \in V : ~Has(s, c, "STICKY")}
           N == {c \in W : ~Has(a, c, "STICKY")}
           O == {c \in V \cup W : ~Has(s, c, "STICKY")}
           UL == {w \in L \cap Windows : s.mapped[w]}
           UN == {w \in N \cap Windows : a.mapped[w]}
           UO == {w \in O \cap Windows : s.mapped[w]}
<1>1. Hidden(s, L, a) /\ a \in State /\ a.evq = s.evq \o Events("UnmapNotify", UL)
  BY HideAllHidden, HideAllMore
<1>2. Hidden(a, N, b) /\ b \in State /\ b.evq = a.evq \o Events("UnmapNotify", UN)
  <2> HIDE DEF a
  <2> QED
    BY <1>1, HideAllHidden, HideAllMore
<1>3. Hidden(s, O, d) /\ d \in State /\ d.evq = s.evq \o Events("UnmapNotify", UO)
  <2> DEFINE X == V \cup W
  <2>1. X \in SUBSET Clients
    OBVIOUS
  <2> HIDE DEF X
  <2>2. /\ Hidden(s, {c \in X : ~Has(s, c, "STICKY")}, HideAll(s, X))
        /\ HideAll(s, X) \in State
        /\ HideAll(s, X).evq = s.evq \o Events("UnmapNotify",
             {w \in {c \in X : ~Has(s, c, "STICKY")} \cap Windows : s.mapped[w]})
    BY <2>1, HideAllHidden, HideAllMore
  <2> QED
    BY <2>2 DEF X
<1> HIDE DEF a, b, d
<1>4. \A c \in Clients : Has(a, c, "STICKY") <=> Has(s, c, "STICKY")
  BY <1>1 DEF Hidden, Reflag, Has
<1>5. N = {c \in W : ~Has(s, c, "STICKY")} /\ O = L \cup N
  BY <1>4
<1>6. UN = UO \ UL /\ UL \subseteq UO /\ UO \subseteq Windows
  <2>1. \A w \in Windows : a.mapped[w] <=> s.mapped[w] /\ w \notin L
    BY <1>1 DEF Hidden
  <2> QED
    BY <1>5, <2>1
<1>7. L \subseteq Clients /\ N \subseteq Clients /\ NoClient \notin Clients
  BY ClientsAssumption
<1> HIDE DEF L, N, O, UL, UN, UO
<1>8. b.flags = d.flags
  <2>1. /\ b.flags = Reflag(Reflag(s.flags, L, {"ACTIVE"}, {"HIDDEN"}), N,
                            {"ACTIVE"}, {"HIDDEN"})
        /\ d.flags = Reflag(s.flags, L \cup N, {"ACTIVE"}, {"HIDDEN"})
    BY <1>1, <1>2, <1>3, <1>5 DEF Hidden
  <2> QED
    BY <2>1 DEF Reflag
<1>9. b.wm_state = d.wm_state
  <2>1. /\ b.wm_state = SetProperty(a, SetProperty(s, s.wm_state, L, "Iconic"),
                                    N, "Iconic")
        /\ d.wm_state = SetProperty(s, s.wm_state, L \cup N, "Iconic")
        /\ a.app = s.app
    BY <1>1, <1>2, <1>3, <1>5 DEF Hidden
  <2> QED
    BY <2>1 DEF SetProperty
<1>10. b.mapped = d.mapped
  <2>1. /\ a.mapped = [w \in Windows |-> s.mapped[w] /\ w \notin L]
        /\ b.mapped = [w \in Windows |-> a.mapped[w] /\ w \notin N]
        /\ d.mapped = [w \in Windows |-> s.mapped[w] /\ w \notin L \cup N]
    BY <1>1, <1>2, <1>3, <1>5 DEF Hidden
  <2> QED
    BY <2>1
<1>11. b.curcc = d.curcc /\ b.net_active = d.net_active
  BY <1>1, <1>2, <1>3, <1>5, <1>7 DEF Hidden
<1>12. ToSet(b.evq) = ToSet(d.evq) /\ Len(b.evq) = Len(d.evq)
  <2>1. UL \in SUBSET Windows /\ UN \in SUBSET Windows /\ UO \in SUBSET Windows
    BY <1>6
  <2>2. /\ ToSet(a.evq) = ToSet(s.evq) \cup {Event("UnmapNotify", w) : w \in UL}
        /\ Len(a.evq) = Len(s.evq) + Cardinality(UL) /\ IsFiniteSet(UL)
        /\ Len(s.evq) \in Nat
    BY <1>1, <2>1, AppendedEvents
  <2>3. /\ ToSet(b.evq) = ToSet(a.evq) \cup {Event("UnmapNotify", w) : w \in UN}
        /\ Len(b.evq) = Len(a.evq) + Cardinality(UN) /\ IsFiniteSet(UN)
    BY <1>1, <1>2, <2>1, AppendedEvents
  <2>4. /\ ToSet(d.evq) = ToSet(s.evq) \cup {Event("UnmapNotify", w) : w \in UO}
        /\ Len(d.evq) = Len(s.evq) + Cardinality(UO)
    BY <1>3, <2>1, AppendedEvents
  <2>5. Cardinality(UO) = Cardinality(UL) + Cardinality(UN)
    <3>1. UO = UL \cup UN /\ UL \cap UN = {}
      BY <1>6
    <3>2. Cardinality(UL \cup UN)
            = Cardinality(UL) + Cardinality(UN) - Cardinality(UL \cap UN)
      BY <2>2, <2>3, FS_Union
    <3>3. Cardinality(UL) \in Nat /\ Cardinality(UN) \in Nat /\ Cardinality({}) = 0
      BY <2>2, <2>3, FS_CardinalityType, FS_EmptySet
    <3>4. Cardinality(UO) = Cardinality(UL) + Cardinality(UN) - Cardinality({})
      BY <3>1, <3>2
    <3> QED
      BY <3>3, <3>4
  <2>6. Cardinality(UL) \in Nat /\ Cardinality(UN) \in Nat
    BY <2>2, <2>3, FS_CardinalityType
  <2>7. UO = UL \cup UN
    BY <1>6
  <2>8. ToSet(b.evq) = ToSet(d.evq)
    BY <2>2, <2>3, <2>4, <2>7
  <2> QED
    BY <2>2, <2>3, <2>4, <2>5, <2>6, <2>8
<1>13. SameButEvents(d, b)
  BY <1>1, <1>2, <1>3, <1>8, <1>9, <1>10, <1>11 DEF SameButEvents, Hidden
<1> QED
  BY <1>2, <1>3, <1>12, <1>13 DEF Like, a, b, d

\* What group_show leaves, field by field: L are the clients it unhides, and K
\* the sticky ones.
Visible(s, L, K, g, t) ==
  /\ t.clientq = s.clientq
  /\ t.flags = Reflag(s.flags, L, {"HIDDEN"}, {})
  /\ t.group = [c \in Clients |-> IF c \in K THEN g ELSE s.group[c]]
  /\ t.members = [h \in Groups |->
                    IF h = g THEN s.members[h] \cup K
                    ELSE s.members[h] \ {c \in K : s.group[c] = h}]
  /\ t.hidden_groups = s.hidden_groups
  /\ t.group_current = s.group_current /\ t.hideall = s.hideall
  /\ t.cycling = s.cycling /\ t.curcc = s.curcc /\ t.alive = s.alive
  /\ t.app = s.app
  /\ t.mapped = [w \in Windows |-> s.mapped[w] \/ (w \in L /\ s.app[w] # "gone")]
  /\ t.wm_state = SetProperty(s, s.wm_state, L, "Normal")
  /\ t.wm_desktop = SetProperty(s, s.wm_desktop, K, g)
  /\ t.net_active = s.net_active
  /\ t.net_desktop = s.net_desktop /\ t.net_clients = s.net_clients
  /\ t.evq = s.evq

Solid(s, W) == {c \in W : ~Has(s, c, "STICKY")}

\* The sticky clients of like screens, and of a screen whose clients are hidden
\* or shown, are the same.
LEMMA StickySame ==
  ASSUME NEW s \in State, NEW t \in State, t.clientq = s.clientq,
         \A c \in Clients : Has(t, c, "STICKY") <=> Has(s, c, "STICKY")
  PROVE  /\ StickyClients(t) = StickyClients(s)
         /\ \A W \in SUBSET Clients : Solid(t, W) = Solid(s, W)
<1>1. Managed(s) \in SUBSET Clients /\ Managed(t) = Managed(s)
  BY ManagedType DEF Managed
<1> QED
  BY <1>1 DEF StickyClients, Solid

\* Unhiding the clients W, which is what a group_show of sticky clients that
\* stay where they are would leave.
LEMMA UnhideVisible ==
  ASSUME NEW s \in State, NEW W \in SUBSET Clients, NEW g \in Groups
  PROVE  /\ UnhideAll(s, W) \in State
         /\ Visible(s, Solid(s, W), {}, g, UnhideAll(s, W))
<1> DEFINE L == Solid(s, W)
           u == UnhideAll(s, W)
<1>1. /\ SameDesks(s, u) /\ u.cycling = s.cycling
      /\ u.flags = Reflag(s.flags, L, {"HIDDEN"}, {})
      /\ u.mapped = [w \in Windows |-> s.mapped[w] \/ (w \in L /\ s.app[w] # "gone")]
      /\ u.curcc = s.curcc /\ u.net_active = s.net_active
      /\ u.members = s.members /\ u.hideall = s.hideall
  BY UnhideAllFields DEF Solid
<1>2. /\ u \in State
      /\ u.hidden_groups = s.hidden_groups /\ u.alive = s.alive
      /\ u.wm_state = SetProperty(s, s.wm_state, L, "Normal")
      /\ u.evq = s.evq
  BY UnhideAllMore DEF Solid
<1> HIDE DEF u, L
<1>3. u.group = [c \in Clients |-> IF c \in {} THEN g ELSE s.group[c]]
  BY <1>1, <1>2 DEF SameDesks, State
<1>4. u.members = [h \in Groups |->
                     IF h = g THEN s.members[h] \cup {}
                     ELSE s.members[h] \ {c \in {} : s.group[c] = h}]
  BY <1>1, <1>2 DEF State
<1>5. u.wm_desktop = SetProperty(s, s.wm_desktop, {}, g)
  BY <1>1, <1>2 DEF SameDesks, State, SetProperty
<1>6. Visible(s, L, {}, g, u)
  BY <1>1, <1>2, <1>3, <1>4, <1>5 DEF Visible, SameDesks
<1> QED
  BY <1>2, <1>6 DEF u, L

\* Unhiding the clients W and taking the sticky clients to group g.
LEMMA ShowVisible ==
  ASSUME NEW s \in State, NEW W \in SUBSET Clients, NEW g \in Groups
  PROVE  LET u == UnhideAll(s, W)
             t == AssignAll(u, StickyClients(u), g)
         IN /\ t \in State
            /\ Visible(s, Solid(s, W), StickyClients(s), g, t)
            /\ StickyClients(s) \in SUBSET Clients
<1> DEFINE L == Solid(s, W)
           K == StickyClients(s)
           u == UnhideAll(s, W)
           t == AssignAll(u, StickyClients(u), g)
<1>1. K \in SUBSET Clients
  BY ManagedType DEF StickyClients
<1>2. /\ SameDesks(s, u) /\ u.cycling = s.cycling
      /\ u.flags = Reflag(s.flags, L, {"HIDDEN"}, {})
      /\ u.mapped = [w \in Windows |-> s.mapped[w] \/ (w \in L /\ s.app[w] # "gone")]
      /\ u.curcc = s.curcc /\ u.net_active = s.net_active
      /\ u.members = s.members /\ u.hideall = s.hideall
  BY UnhideAllFields DEF Solid
<1>3. /\ u \in State
      /\ u.hidden_groups = s.hidden_groups /\ u.alive = s.alive
      /\ u.wm_state = SetProperty(s, s.wm_state, L, "Normal")
      /\ u.evq = s.evq
  BY <1>1, UnhideAllMore DEF Solid
<1> HIDE DEF u, L
<1>4. StickyClients(u) = K
  <2>1. \A c \in Clients : Has(u, c, "STICKY") <=> Has(s, c, "STICKY")
    BY <1>2 DEF Reflag, Has
  <2> QED
    BY <1>2, <1>3, <2>1, StickySame DEF SameDesks
<1>5. t = AssignAll(u, K, g)
  BY <1>4
<1> HIDE DEF t, K
<1>6. /\ t.clientq = u.clientq /\ t.net_clients = u.net_clients
      /\ t.app = u.app /\ t.curcc = u.curcc /\ t.net_active = u.net_active
      /\ t.group_current = u.group_current /\ t.net_desktop = u.net_desktop
      /\ t.cycling = u.cycling /\ t.mapped = u.mapped
      /\ t.flags = u.flags /\ t.hideall = u.hideall
      /\ t.group = [c \in Clients |-> IF c \in K THEN g ELSE u.group[c]]
      /\ t.wm_desktop = SetProperty(u, u.wm_desktop, K, g)
  BY <1>3, <1>5, AssignAllFields
<1>7. /\ t \in State
      /\ t.hidden_groups = u.hidden_groups /\ t.alive = u.alive
      /\ t.wm_state = u.wm_state /\ t.evq = u.evq
      /\ t.members = [h \in Groups |->
                        IF h = g THEN u.members[h] \cup K
                        ELSE u.members[h] \ {c \in K : u.group[c] = h}]
  BY <1>1, <1>3, <1>5, AssignAllMore
<1>8. SetProperty(u, u.wm_desktop, K, g) = SetProperty(s, s.wm_desktop, K, g)
  BY <1>2 DEF SetProperty, SameDesks
<1>9. Visible(s, L, K, g, t)
  BY <1>2, <1>3, <1>6, <1>7, <1>8 DEF Visible, SameDesks
<1> QED
  BY <1>1, <1>7, <1>9 DEF L, K, t, u

\* group_show leaves the members of its group Visible and the sticky clients in it.
LEMMA GroupShowVisible ==
  ASSUME NEW s \in State, NEW g \in Groups
  PROVE  /\ GroupShow(s, g) \in State
         /\ Visible(s, Solid(s, s.members[g]), StickyClients(s), g, GroupShow(s, g))
         /\ s.members[g] \in SUBSET Clients /\ StickyClients(s) \in SUBSET Clients
<1>1. s.members[g] \in SUBSET Clients
  BY DEF State
<1> QED
  BY <1>1, ShowVisible DEF GroupShow

\* group_show and group_setactive take like screens to like screens.
LEMMA GroupShowLike ==
  ASSUME NEW s, NEW t, Like(s, t), NEW g \in Groups
  PROVE  Like(GroupShow(s, g), GroupShow(t, g))
<1> DEFINE a == GroupShow(s, g)
           b == GroupShow(t, g)
           L == Solid(s, s.members[g])
           K == StickyClients(s)
<1>1. s \in State /\ t \in State /\ SameButEvents(s, t)
      /\ ToSet(t.evq) = ToSet(s.evq) /\ Len(t.evq) = Len(s.evq)
  BY DEF Like
<1>2. a \in State /\ Visible(s, L, K, g, a)
  BY <1>1, GroupShowVisible
<1>3. Solid(t, t.members[g]) = L /\ StickyClients(t) = K
  <2>1. \A c \in Clients : Has(t, c, "STICKY") <=> Has(s, c, "STICKY")
    BY <1>1 DEF SameButEvents, Has
  <2>2. t.clientq = s.clientq /\ t.members = s.members /\ s.members[g] \in SUBSET Clients
    BY <1>1 DEF SameButEvents, State
  <2> QED
    BY <1>1, <2>1, <2>2, StickySame
<1>4. b \in State /\ Visible(t, L, K, g, b)
  <2>1. b \in State /\ Visible(t, Solid(t, t.members[g]), StickyClients(t), g, b)
    BY <1>1, GroupShowVisible
  <2> HIDE DEF b, L, K
  <2> QED
    BY <1>3, <2>1
<1> HIDE DEF a, b, L, K
<1>5. SetProperty(t, t.wm_state, L, "Normal") = SetProperty(s, s.wm_state, L, "Normal")
      /\ SetProperty(t, t.wm_desktop, K, g) = SetProperty(s, s.wm_desktop, K, g)
  BY <1>1 DEF SetProperty, SameButEvents
<1>6. SameButEvents(a, b)
  BY <1>1, <1>2, <1>4, <1>5 DEF SameButEvents, Visible
<1>7. a.evq = s.evq /\ b.evq = t.evq
  BY <1>2, <1>4 DEF Visible
<1> QED
  BY <1>1, <1>2, <1>4, <1>6, <1>7 DEF Like, a, b

\* group_setactive too takes like screens to like screens.
LEMMA GroupSetActiveLike ==
  ASSUME NEW s, NEW t, Like(s, t), NEW g \in Groups
  PROVE  Like(GroupSetActive(s, g), GroupSetActive(t, g))
<1>1. s \in State /\ t \in State
  BY DEF Like
<1> QED
  BY <1>1, GroupSetActiveFields DEF Like, SameButEvents

\* Hiding clients that are not in the group shown, before or after showing it.
LEMMA ShowThenHide ==
  ASSUME NEW s \in State, NEW g \in Groups, NEW V \in SUBSET Clients,
         V \cap s.members[g] = {}
  PROVE  Like(GroupShow(GroupSetActive(HideAll(s, V), g), g),
              HideAll(GroupShow(GroupSetActive(s, g), g), V))
<1> DEFINE a == HideAll(s, V)
           c == GroupSetActive(a, g)
           p == GroupShow(c, g)
           e == GroupSetActive(s, g)
           b == GroupShow(e, g)
           q == HideAll(b, V)
           L == Solid(s, V)
           N == Solid(s, s.members[g])
           K == StickyClients(s)
           U == {w \in L \cap Windows : s.mapped[w]}
<1>1. Hidden(s, L, a) /\ a \in State /\ a.evq = s.evq \o Events("UnmapNotify", U)
  BY HideAllHidden, HideAllMore DEF Solid
<1> HIDE DEF a
<1>2. /\ c \in State
      /\ c.group_current = g /\ c.net_desktop = g
      /\ c.clientq = a.clientq /\ c.flags = a.flags /\ c.group = a.group
      /\ c.members = a.members /\ c.hidden_groups = a.hidden_groups
      /\ c.hideall = a.hideall
      /\ c.cycling = a.cycling /\ c.curcc = a.curcc /\ c.alive = a.alive
      /\ c.app = a.app /\ c.mapped = a.mapped /\ c.wm_state = a.wm_state
      /\ c.wm_desktop = a.wm_desktop /\ c.net_active = a.net_active
      /\ c.net_clients = a.net_clients /\ c.evq = a.evq
  BY <1>1, GroupSetActiveFields
<1>3. /\ e \in State
      /\ e.group_current = g /\ e.net_desktop = g
      /\ e.clientq = s.clientq /\ e.flags = s.flags /\ e.group = s.group
      /\ e.members = s.members /\ e.hidden_groups = s.hidden_groups
      /\ e.hideall = s.hideall
      /\ e.cycling = s.cycling /\ e.curcc = s.curcc /\ e.alive = s.alive
      /\ e.app = s.app /\ e.mapped = s.mapped /\ e.wm_state = s.wm_state
      /\ e.wm_desktop = s.wm_desktop /\ e.net_active = s.net_active
      /\ e.net_clients = s.net_clients /\ e.evq = s.evq
  BY GroupSetActiveFields
<1> HIDE DEF c, e
<1>4. s.members[g] \in SUBSET Clients
  BY DEF State
<1>5. /\ p \in State /\ Visible(c, Solid(c, c.members[g]), StickyClients(c), g, p)
      /\ b \in State /\ Visible(e, Solid(e, e.members[g]), StickyClients(e), g, b)
  BY <1>2, <1>3, GroupShowVisible
<1>6. Solid(c, c.members[g]) = N /\ StickyClients(c) = K
  <2>1. \A d \in Clients : Has(c, d, "STICKY") <=> Has(s, d, "STICKY")
    BY <1>1, <1>2 DEF Has, Hidden, Reflag
  <2>2. c.clientq = s.clientq /\ c.members = s.members
    BY <1>1, <1>2 DEF Hidden
  <2> QED
    BY <1>2, <1>4, <2>1, <2>2, StickySame
<1>7. Solid(e, e.members[g]) = N /\ StickyClients(e) = K
  <2>1. \A d \in Clients : Has(e, d, "STICKY") <=> Has(s, d, "STICKY")
    BY <1>3 DEF Has
  <2> QED
    BY <1>3, <1>4, <2>1, StickySame
<1>8. Visible(c, N, K, g, p) /\ Visible(e, N, K, g, b)
  <2> HIDE DEF p, b, N, K
  <2> QED
    BY <1>5, <1>6, <1>7
<1> HIDE DEF p, b
<1>9. Solid(b, V) = L /\ StickyClients(b) = K
  <2>1. \A d \in Clients : Has(b, d, "STICKY") <=> Has(s, d, "STICKY")
    BY <1>3, <1>8 DEF Has, Visible, Reflag
  <2>2. b.clientq = s.clientq
    BY <1>3, <1>8 DEF Visible
  <2> QED
    BY <1>5, <2>1, <2>2, StickySame
<1>10. /\ Hidden(b, L, q) /\ q \in State
       /\ q.evq = b.evq \o Events("UnmapNotify", {w \in L \cap Windows : b.mapped[w]})
  <2>1. /\ Hidden(b, Solid(b, V), q) /\ q \in State
        /\ q.evq = b.evq \o Events("UnmapNotify",
                                   {w \in Solid(b, V) \cap Windows : b.mapped[w]})
    BY <1>5, HideAllHidden, HideAllMore DEF Solid
  <2> HIDE DEF L, q
  <2> QED
    BY <1>9, <2>1
<1> HIDE DEF q
<1>11. L \cap N = {} /\ L \subseteq Clients /\ N \subseteq Clients
  BY <1>4 DEF Solid
<1>12. \A w \in Windows : b.mapped[w] <=> s.mapped[w] \/ (w \in N /\ s.app[w] # "gone")
  <2> HIDE DEF N, K
  <2>1. b.mapped = [w \in Windows |-> e.mapped[w] \/ (w \in N /\ e.app[w] # "gone")]
    BY <1>8 DEF Visible
  <2>2. e.mapped = s.mapped /\ e.app = s.app
    BY <1>3
  <2> QED
    BY <2>1, <2>2
<1>13. {w \in L \cap Windows : b.mapped[w]} = U
  <2> HIDE DEF L, N
  <2> QED
    BY <1>11, <1>12
<1> HIDE DEF L, N, K, U
<1>14. p.evq = q.evq
  <2>1. q.evq = b.evq \o Events("UnmapNotify", U)
    BY <1>10, <1>13
  <2>2. b.evq = s.evq /\ p.evq = a.evq
    BY <1>2, <1>3, <1>8 DEF Visible
  <2> QED
    BY <1>1, <2>1, <2>2
<1>15. p.flags = q.flags
  <2>1. /\ p.flags = Reflag(Reflag(s.flags, L, {"ACTIVE"}, {"HIDDEN"}), N, {"HIDDEN"}, {})
        /\ q.flags = Reflag(Reflag(s.flags, N, {"HIDDEN"}, {}), L, {"ACTIVE"}, {"HIDDEN"})
    BY <1>1, <1>2, <1>3, <1>8, <1>10 DEF Hidden, Visible
  <2> QED
    BY <1>11, <2>1 DEF Reflag
<1>16. p.mapped = q.mapped
  <2>1. p.mapped = [w \in Windows |-> c.mapped[w] \/ (w \in N /\ c.app[w] # "gone")]
    BY <1>8 DEF Visible
  <2>2. q.mapped = [w \in Windows |-> b.mapped[w] /\ w \notin L]
    BY <1>10 DEF Hidden
  <2>3. c.app = s.app /\ \A w \in Windows : c.mapped[w] <=> s.mapped[w] /\ w \notin L
    BY <1>1, <1>2 DEF Hidden
  <2>4. \A w \in Windows : (c.mapped[w] \/ (w \in N /\ c.app[w] # "gone"))
                             <=> (b.mapped[w] /\ w \notin L)
    BY <1>11, <1>12, <2>3
  <2> QED
    BY <2>1, <2>2, <2>4
<1>17. p.wm_state = q.wm_state
  <2>1. /\ p.wm_state = SetProperty(c, SetProperty(s, s.wm_state, L, "Iconic"), N, "Normal")
        /\ q.wm_state = SetProperty(b, SetProperty(e, e.wm_state, N, "Normal"), L, "Iconic")
        /\ c.app = s.app /\ b.app = s.app /\ e.app = s.app /\ e.wm_state = s.wm_state
    BY <1>1, <1>2, <1>3, <1>8, <1>10 DEF Hidden, Visible
  <2> QED
    BY <1>11, <2>1 DEF SetProperty
<1>18. p.wm_desktop = q.wm_desktop
  <2>1. /\ p.wm_desktop = SetProperty(c, s.wm_desktop, K, g)
        /\ q.wm_desktop = SetProperty(e, s.wm_desktop, K, g)
        /\ c.app = s.app /\ e.app = s.app
    BY <1>1, <1>2, <1>3, <1>8, <1>10 DEF Hidden, Visible
  <2> QED
    BY <2>1 DEF SetProperty
<1>19. SameButEvents(p, q)
  BY <1>1, <1>2, <1>3, <1>8, <1>10, <1>15, <1>16, <1>17, <1>18
     DEF SameButEvents, Hidden, Visible
<1>20. Like(p, q)
  BY <1>5, <1>10, <1>14, <1>19 DEF Like
<1> QED
  BY <1>20 DEF p, q, a, b, c, e

----------------------------------------------------------------------------
(* group_only.                                                             *)

\* The members of some groups.
MembersOf(s, G) == UNION {s.members[h] : h \in G}

\* The lists agree with the back pointers.
Agree(s) == \A c \in Clients, g \in Groups : c \in s.members[g] <=> s.group[c] = g

\* The members of one group more.
LEMMA MembersOfMore ==
  ASSUME NEW s \in State, NEW G \in SUBSET Groups, NEW n \in Groups
  PROVE  /\ MembersOf(s, G) \in SUBSET Clients /\ s.members[n] \in SUBSET Clients
         /\ MembersOf(s, G \cup {n}) = MembersOf(s, G) \cup s.members[n]
         /\ MembersOf(s, {}) = {}
<1>1. \A h \in Groups : s.members[h] \in SUBSET Clients
  BY DEF State
<1> QED
  BY <1>1 DEF MembersOf

\* Hiding nobody, or showing nobody.
LEMMA HideNone ==
  ASSUME NEW s \in State
  PROVE  Like(HideAll(s, {}), s)
<1> DEFINE t == HideAll(s, {})
           L == {c \in {} : ~Has(s, c, "STICKY")}
           U == {w \in L \cap Windows : s.mapped[w]}
<1>1. Hidden(s, L, t) /\ t \in State /\ t.evq = s.evq \o Events("UnmapNotify", U)
  <2> DEFINE X == {}
  <2>1. X \in SUBSET Clients
    OBVIOUS
  <2> HIDE DEF X
  <2>2. /\ Hidden(s, {c \in X : ~Has(s, c, "STICKY")}, HideAll(s, X))
        /\ HideAll(s, X) \in State
        /\ HideAll(s, X).evq = s.evq \o Events("UnmapNotify",
             {w \in {c \in X : ~Has(s, c, "STICKY")} \cap Windows : s.mapped[w]})
    BY <2>1, HideAllHidden, HideAllMore
  <2> QED
    BY <2>2 DEF X
<1>2. L = {} /\ U = {} /\ U \in SUBSET Windows
  OBVIOUS
<1> HIDE DEF t, L, U
<1>3. Hidden(s, {}, t)
  BY <1>1, <1>2
<1>4. ToSet(t.evq) = ToSet(s.evq) /\ Len(t.evq) = Len(s.evq)
  <2>1. /\ ToSet(t.evq) = ToSet(s.evq) \cup {Event("UnmapNotify", w) : w \in U}
        /\ Len(t.evq) = Len(s.evq) + Cardinality(U) /\ Len(s.evq) \in Nat
    BY <1>1, <1>2, AppendedEvents
  <2>2. Cardinality(U) = 0
    BY <1>2, FS_EmptySet
  <2> QED
    BY <1>2, <2>1, <2>2
<1>5. t.flags = s.flags /\ t.mapped = s.mapped /\ t.wm_state = s.wm_state
      /\ t.curcc = s.curcc /\ t.net_active = s.net_active
  <2>1. /\ t.flags = Reflag(s.flags, {}, {"ACTIVE"}, {"HIDDEN"})
        /\ t.mapped = [w \in Windows |-> s.mapped[w] /\ w \notin {}]
        /\ t.wm_state = SetProperty(s, s.wm_state, {}, "Iconic")
        /\ t.curcc = s.curcc /\ t.net_active = s.net_active
    BY <1>3 DEF Hidden
  <2>2. /\ s.flags \in [Clients -> SUBSET Flags] /\ s.mapped \in [Windows -> BOOLEAN]
        /\ s.wm_state \in [Windows -> {"none", "Normal", "Iconic", "Withdrawn"}]
    BY DEF State
  <2>3. t.flags = s.flags
    BY <2>1, <2>2 DEF Reflag
  <2>4. t.mapped = s.mapped
    BY <2>1, <2>2
  <2>5. t.wm_state = s.wm_state
    BY <2>1, <2>2 DEF SetProperty
  <2> QED
    BY <2>1, <2>3, <2>4, <2>5
<1>6. SameButEvents(t, s)
  BY <1>3, <1>5 DEF SameButEvents, Hidden
<1> QED
  BY <1>1, <1>4, <1>6 DEF Like, t

\* The screen when group_only comes to group n: the groups before it are hidden,
\* the chosen one apart, which is shown if it was one of them.
Earlier(g, n) == {h \in Groups : h < n /\ h # g}
Show(s, g)    == GroupShow(GroupSetActive(s, g), g)
Only(s, g, n) ==
  LET t == HideAll(s, MembersOf(s, Earlier(g, n)))
  IN IF n > g THEN Show(t, g) ELSE t

\* Showing the chosen group takes like screens to like screens.
LEMMA ShowLike ==
  ASSUME NEW s, NEW t, Like(s, t), NEW g \in Groups
  PROVE  Like(Show(s, g), Show(t, g))
<1>1. Like(GroupSetActive(s, g), GroupSetActive(t, g))
  BY GroupSetActiveLike
<1> QED
  BY <1>1, GroupShowLike DEF Show

\* group_only begins with every group before it unchanged.
LEMMA OnlyStart ==
  ASSUME NEW s \in State, NEW g \in Groups
  PROVE  Like(Only(s, g, FirstGroup), s)
<1>1. ~(FirstGroup > g) /\ Earlier(g, FirstGroup) = {} /\ FirstGroup \in Groups
  BY ClientsAssumption DEF Groups, FirstGroup, Earlier
<1>2. MembersOf(s, {}) = {}
  BY <1>1, MembersOfMore
<1>3. Only(s, g, FirstGroup) = HideAll(s, {})
  BY <1>1, <1>2 DEF Only
<1> QED
  BY <1>3, HideNone

\* One turn of group_only: the chosen group is shown, any other hidden, and
\* what it hides after the chosen one is shown could have been hidden before.
LEMMA OnlyStep ==
  ASSUME NEW s \in State, Agree(s), NEW g \in Groups, NEW n \in Groups,
         NEW t, Like(Only(s, g, n), t)
  PROVE  Like(Only(s, g, n + 1),
              IF n = g THEN GroupShow(GroupSetActive(t, n), n) ELSE GroupHide(t, n))
<1> DEFINE P == MembersOf(s, Earlier(g, n))
           Q == s.members[n]
           a == HideAll(s, P)
<1>1. g \in Nat /\ n \in Nat
  BY ClientsAssumption DEF Groups
<1>2. Earlier(g, n) \in SUBSET Groups
  BY DEF Earlier
<1>3. P \in SUBSET Clients /\ Q \in SUBSET Clients
  BY <1>2, MembersOfMore
<1>4. n # g => MembersOf(s, Earlier(g, n + 1)) = P \cup Q
  <2>1. n # g => Earlier(g, n + 1) = Earlier(g, n) \cup {n}
    BY <1>1 DEF Earlier, Groups
  <2> QED
    BY <1>2, <2>1, MembersOfMore
<1>5. n = g => Earlier(g, n + 1) = Earlier(g, n)
  BY <1>1 DEF Earlier, Groups
<1>6. a \in State /\ Hidden(s, Solid(s, P), a)
  BY <1>3, HideAllHidden, HideAllMore DEF Solid
<1>7. Like(HideAll(s, P \cup Q), HideAll(a, Q))
  BY <1>3, HideTwice
<1>8. CASE n < g
  <2>1. Only(s, g, n) = a /\ Only(s, g, n + 1) = HideAll(s, P \cup Q)
    <3>1. ~(n > g) /\ ~(n + 1 > g) /\ n # g
      BY <1>1, <1>8
    <3>2. MembersOf(s, Earlier(g, n + 1)) = P \cup Q
      BY <1>4, <3>1
    <3> QED
      BY <3>1, <3>2, Zenon DEF Only
  <2> HIDE DEF a, P
  <2>2. Like(a, t)
    BY <2>1
  <2>3. t.members[n] = Q
    BY <1>6, <2>2 DEF Like, SameButEvents, Hidden
  <2> HIDE DEF Q
  <2>4. Like(HideAll(a, Q), HideAll(t, Q))
    BY <1>3, <2>2, HideAllLike
  <2>5. Like(HideAll(s, P \cup Q), HideAll(t, Q))
    BY <1>7, <2>4, LikeEachOther
  <2> QED
    BY <1>1, <1>8, <2>1, <2>3, <2>5 DEF GroupHide
<1>9. CASE n = g
  <2>1. Only(s, g, n) = a /\ Only(s, g, n + 1) = Show(a, g)
    <3>1. ~(n > g) /\ n + 1 > g
      BY <1>1, <1>9
    <3>2. MembersOf(s, Earlier(g, n + 1)) = P
      BY <1>5, <1>9
    <3> QED
      BY <3>1, <3>2, Zenon DEF Only
  <2> HIDE DEF a
  <2>2. Like(Show(a, g), Show(t, g))
    BY <2>1, ShowLike
  <2> QED
    BY <1>9, <2>1, <2>2 DEF Show
<1>10. CASE n > g
  <2> DEFINE b == HideAll(s, P \cup Q)
             d == HideAll(a, Q)
             e == GroupSetActive(a, g)
             u == GroupShow(e, g)
  <2>1. Only(s, g, n) = Show(a, g) /\ Only(s, g, n + 1) = Show(b, g)
    <3>1. n > g /\ n + 1 > g /\ n # g
      BY <1>1, <1>10
    <3>2. MembersOf(s, Earlier(g, n + 1)) = P \cup Q
      BY <1>4, <3>1
    <3> QED
      BY <3>1, <3>2, Zenon DEF Only
  <2>2. Like(u, t)
    BY <2>1 DEF Show
  <2>3. Like(Show(b, g), Show(d, g))
    <3> HIDE DEF b, d
    <3> QED
      BY <1>7, ShowLike DEF b, d
  <2>4. Like(Show(d, g), HideAll(u, Q))
    <3>1. Q \cap a.members[g] = {}
      <4>1. a.members[g] = s.members[g]
        BY <1>6 DEF Hidden
      <4>2. s.members[g] \in SUBSET Clients
        BY MembersOfMore
      <4> QED
        BY <1>1, <1>3, <1>10, <4>1, <4>2 DEF Agree
    <3> HIDE DEF a, Q
    <3> QED
      BY <1>3, <1>6, <3>1, ShowThenHide DEF Show
  <2>5. e \in State /\ e.members = s.members
    <3> HIDE DEF a
    <3> QED
      BY <1>6, GroupSetActiveFields DEF Hidden
  <2> HIDE DEF e
  <2>6. u \in State /\ Visible(e, Solid(e, e.members[g]), StickyClients(e), g, u)
    BY <2>5, GroupShowVisible
  <2> HIDE DEF u
  <2>7. \A c \in Clients : ~Has(u, c, "STICKY") => (c \in Q <=> c \in t.members[n])
    <3>1. t.members = u.members
      BY <2>2 DEF Like, SameButEvents
    <3>2. u.members[n] = Q \ {c \in StickyClients(e) : e.group[c] = n}
      BY <1>1, <1>10, <2>5, <2>6 DEF Visible
    <3>3. \A c \in Clients : Has(u, c, "STICKY") <=> Has(e, c, "STICKY")
      BY <2>6 DEF Visible, Has, Reflag
    <3>4. \A c \in StickyClients(e) : Has(e, c, "STICKY")
      BY DEF StickyClients
    <3> HIDE DEF Q
    <3> QED
      BY <3>1, <3>2, <3>3, <3>4
  <2>8. t.members[n] \in SUBSET Clients
    <3>1. t \in State
      BY <2>2 DEF Like
    <3> QED
      BY <3>1 DEF State
  <2>9. Like(HideAll(u, Q), HideAll(t, t.members[n]))
    <3> HIDE DEF Q
    <3> QED
      BY <1>3, <2>2, <2>7, <2>8, HideAllLike
  <2> HIDE DEF b, d, Q, P, a
  <2>10. Like(Show(b, g), HideAll(t, t.members[n]))
    BY <2>3, <2>4, <2>9, LikeEachOther
  <2> QED
    BY <1>1, <1>10, <2>1, <2>10 DEF GroupHide
<1> QED
  BY <1>1, <1>8, <1>9, <1>10

\* After the last group it has left what the closed form says.
LEMMA OnlyEnd ==
  ASSUME NEW s \in State, NEW g \in Groups
  PROVE  Only(s, g, LastGroup + 1) = GroupOnly(s, g)
<1>1. LastGroup + 1 > g /\ Earlier(g, LastGroup + 1) = Groups \ {g}
  BY ClientsAssumption DEF Groups, LastGroup, Earlier
<1> QED
  BY <1>1 DEF Only, GroupOnly, MembersOf, Show

----------------------------------------------------------------------------
(* group_alltoggle.                                                        *)

\* Showing once more: the clients unhidden add up, and the sticky ones have
\* gone from group g to group n.
LEMMA VisibleTwice ==
  ASSUME NEW s \in State, Agree(s), NEW g \in Groups, NEW n \in Groups,
         NEW t \in State, NEW u, NEW K, K \in {{}, StickyClients(s)},
         n # g \/ K = {},
         NEW L \in SUBSET Clients, NEW N \in SUBSET Clients,
         Visible(s, L, K, g, t), Visible(t, N, StickyClients(s), n, u)
  PROVE  Visible(s, L \cup N, StickyClients(s), n, u)
<1> DEFINE sticky == StickyClients(s)
<1>1. sticky \in SUBSET Clients /\ K \in SUBSET sticky
  BY ManagedType DEF StickyClients
<1> HIDE DEF sticky
<1>2. Visible(t, N, sticky, n, u)
  BY DEF sticky
<1>3. t.app = s.app
  BY DEF Visible
<1>4. u.flags = Reflag(s.flags, L \cup N, {"HIDDEN"}, {})
  <2>1. u.flags = Reflag(Reflag(s.flags, L, {"HIDDEN"}, {}), N, {"HIDDEN"}, {})
    BY <1>2 DEF Visible
  <2> QED
    BY <2>1 DEF Reflag
<1>5. u.group = [c \in Clients |-> IF c \in sticky THEN n ELSE s.group[c]]
  <2>1. /\ u.group = [c \in Clients |-> IF c \in sticky THEN n ELSE t.group[c]]
        /\ t.group = [c \in Clients |-> IF c \in K THEN g ELSE s.group[c]]
    BY <1>2 DEF Visible
  <2> QED
    BY <1>1, <2>1
<1>6. u.members = [h \in Groups |->
                     IF h = n THEN s.members[h] \cup sticky
                     ELSE s.members[h] \ {c \in sticky : s.group[c] = h}]
  <2>1. u.members = [h \in Groups |->
                       IF h = n THEN t.members[h] \cup sticky
                       ELSE t.members[h] \ {c \in sticky : t.group[c] = h}]
    BY <1>2 DEF Visible
  <2>2. \A h \in Groups : t.members[h] = IF h = g THEN s.members[h] \cup K
                            ELSE s.members[h] \ {c \in K : s.group[c] = h}
    BY DEF Visible
  <2>3. \A c \in Clients : t.group[c] = IF c \in K THEN g ELSE s.group[c]
    BY DEF Visible
  <2>4. t.members[n] \cup sticky = s.members[n] \cup sticky
    BY <1>1, <2>2
  <2>5. ASSUME NEW h \in Groups, h # n
        PROVE  t.members[h] \ {c \in sticky : t.group[c] = h}
                 = s.members[h] \ {c \in sticky : s.group[c] = h}
    <3>1. s.members[h] \in SUBSET Clients
      BY DEF State
    <3>2. \A c \in Clients : c \in s.members[h] <=> s.group[c] = h
      BY DEF Agree
    <3>3. CASE K = {}
      BY <1>1, <2>2, <2>3, <3>1, <3>3
    <3>4. CASE K = sticky /\ h = g
      BY <1>1, <2>2, <2>3, <3>1, <3>2, <3>4
    <3>5. CASE K = sticky /\ h # g
      <4>1. {c \in sticky : t.group[c] = h} = {}
        BY <1>1, <2>3, <3>5
      <4>2. t.members[h] = s.members[h] \ {c \in sticky : s.group[c] = h}
        BY <2>2, <3>5
      <4> QED
        BY <4>1, <4>2
    <3> QED
      BY <3>3, <3>4, <3>5 DEF sticky
  <2> QED
    BY <2>1, <2>4, <2>5
<1>7. u.mapped = [w \in Windows |-> s.mapped[w] \/ (w \in L \cup N /\ s.app[w] # "gone")]
  <2>1. u.mapped = [w \in Windows |-> t.mapped[w] \/ (w \in N /\ s.app[w] # "gone")]
    BY <1>2, <1>3 DEF Visible
  <2>2. t.mapped = [w \in Windows |-> s.mapped[w] \/ (w \in L /\ s.app[w] # "gone")]
    BY DEF Visible
  <2> QED
    BY <2>1, <2>2
<1>8. u.wm_state = SetProperty(s, s.wm_state, L \cup N, "Normal")
  <2>1. u.wm_state = SetProperty(t, SetProperty(s, s.wm_state, L, "Normal"), N, "Normal")
    BY <1>2 DEF Visible
  <2> QED
    BY <1>3, <2>1 DEF SetProperty
<1>9. u.wm_desktop = SetProperty(s, s.wm_desktop, sticky, n)
  <2>1. u.wm_desktop = SetProperty(t, SetProperty(s, s.wm_desktop, K, g), sticky, n)
    BY <1>2 DEF Visible
  <2> QED
    BY <1>1, <1>3, <2>1 DEF SetProperty
<1>10. Visible(s, L \cup N, sticky, n, u)
  BY <1>2, <1>4, <1>5, <1>6, <1>7, <1>8, <1>9 DEF Visible
<1> QED
  BY <1>10 DEF sticky

\* The groups that group_alltoggle shows: those with a client that is not
\* sticky, and the first that is not empty.
Before(n) == {h \in Groups : h < n}
Full(s)   == {h \in Groups : s.members[h] # {}}
Shown(s)  ==
  {h \in Full(s) : ~(s.members[h] \subseteq StickyClients(s))}
    \cup {h \in Full(s) : \A k \in Full(s) : h <= k}

\* The screen t when group_alltoggle, which began with s, comes to group n.
Toggled(s, n, t) ==
  LET L == Solid(s, MembersOf(s, Before(n)))
  IN IF ~s.hideall THEN Like(HideAll(s, MembersOf(s, Before(n))), t)
     ELSE /\ t \in State
          /\ \/ /\ Full(s) \cap Before(n) = {}
                /\ Visible(s, L, {}, FirstGroup, t)
             \/ \E g \in Shown(s) \cap Before(n) :
                  /\ \A h \in Shown(s) \cap Before(n) : h <= g
                  /\ Visible(s, L, StickyClients(s), g, t)

\* group_alltoggle begins with no group shown or hidden.
LEMMA ToggleStart ==
  ASSUME NEW s \in State
  PROVE  Toggled(s, FirstGroup, s)
<1>1. Before(FirstGroup) = {} /\ FirstGroup \in Groups
  BY ClientsAssumption DEF Before, Groups, FirstGroup
<1>2. MembersOf(s, {}) = {}
  BY <1>1, MembersOfMore
<1>3. CASE ~s.hideall
  BY <1>1, <1>2, <1>3, HideNone DEF Toggled
<1>4. CASE s.hideall
  <2>1. Solid(s, {}) = {}
    BY DEF Solid
  <2>2. Reflag(s.flags, {}, {"HIDDEN"}, {}) = s.flags
    BY DEF Reflag, State
  <2>3. s.group = [c \in Clients |-> IF c \in {} THEN FirstGroup ELSE s.group[c]]
    BY DEF State
  <2>4. s.members = [h \in Groups |->
                       IF h = FirstGroup THEN s.members[h] \cup {}
                       ELSE s.members[h] \ {c \in {} : s.group[c] = h}]
    BY DEF State
  <2>5. /\ SetProperty(s, s.wm_state, {}, "Normal") = s.wm_state
        /\ SetProperty(s, s.wm_desktop, {}, FirstGroup) = s.wm_desktop
    BY DEF SetProperty, State
  <2>6. s.mapped = [w \in Windows |-> s.mapped[w] \/ (w \in {} /\ s.app[w] # "gone")]
    BY DEF State
  <2>7. Visible(s, {}, {}, FirstGroup, s)
    BY <2>2, <2>3, <2>4, <2>5, <2>6 DEF Visible
  <2> QED
    BY <1>1, <1>2, <1>4, <2>1, <2>7 DEF Toggled
<1> QED
  BY <1>3, <1>4

\* Coming to a group that is not shown, it finds no client there.
LEMMA ToggleSkips ==
  ASSUME NEW s \in State, Agree(s), s.hideall, NEW n \in Groups,
         NEW t, Toggled(s, n, t)
  PROVE  /\ t.members[n] = {} <=> n \notin Shown(s)
         /\ n \notin Shown(s) => Solid(s, s.members[n]) = {}
         /\ Solid(t, t.members[n]) = Solid(s, s.members[n])
         /\ StickyClients(t) = StickyClients(s) /\ t \in State
         /\ n \in Full(s) \ Shown(s) => Full(s) \cap Before(n) # {}
<1> DEFINE sticky == StickyClients(s)
           L == Solid(s, MembersOf(s, Before(n)))
           m == s.members[n]
<1>1. n \in Nat /\ Groups \subseteq Nat
  BY ClientsAssumption DEF Groups
<1>2. sticky \in SUBSET Clients /\ \A c \in sticky : Has(s, c, "STICKY")
  BY ManagedType DEF StickyClients
<1>3. m \in SUBSET Clients /\ \A c \in Clients : c \in m <=> s.group[c] = n
  BY DEF State, Agree
<1>4. Solid(s, m) = {} \/ ~(m \subseteq sticky)
  BY <1>2, <1>3 DEF Solid
<1>5. n \notin Shown(s) => Solid(s, m) = {}
  <2>1. n \notin Shown(s) => m = {} \/ m \subseteq sticky
    BY DEF Shown, Full
  <2> QED
    BY <1>2, <2>1 DEF Solid
<1>6. n \in Full(s) /\ Full(s) \cap Before(n) = {} => n \in Shown(s)
  BY <1>1 DEF Shown, Full, Before
<1>7. ASSUME NEW K \in SUBSET sticky, NEW g \in Groups, Visible(s, L, K, g, t)
      PROVE  /\ StickyClients(t) = sticky
             /\ \A W \in SUBSET Clients : Solid(t, W) = Solid(s, W)
  <2> HIDE DEF L
  <2>1. t.clientq = s.clientq /\ t.flags = Reflag(s.flags, L, {"HIDDEN"}, {})
    BY <1>7 DEF Visible
  <2>2. t \in State
    BY DEF Toggled
  <2>3. \A c \in Clients : Has(t, c, "STICKY") <=> Has(s, c, "STICKY")
    BY <2>1 DEF Has, Reflag
  <2> QED
    BY <2>1, <2>2, <2>3, StickySame
<1> HIDE DEF L, sticky
<1>8. CASE Full(s) \cap Before(n) = {} /\ Visible(s, L, {}, FirstGroup, t)
  <2>1. t.members[n] = m
    BY <1>8 DEF Visible
  <2>2. m = {} <=> n \notin Shown(s)
    BY <1>6, <1>8 DEF Full, Shown
  <2>3. FirstGroup \in Groups
    BY ClientsAssumption DEF Groups, FirstGroup
  <2>4. StickyClients(t) = sticky /\ \A W \in SUBSET Clients : Solid(t, W) = Solid(s, W)
    BY <1>7, <1>8, <2>3
  <2>5. t \in State
    BY DEF Toggled
  <2> QED
    BY <1>3, <1>5, <1>6, <1>8, <2>1, <2>2, <2>4, <2>5 DEF sticky
<1>9. CASE \E g \in Shown(s) \cap Before(n) : Visible(s, L, sticky, g, t)
  <2>1. PICK g \in Shown(s) \cap Before(n) : Visible(s, L, sticky, g, t)
    BY <1>9
  <2>2. g \in Full(s) /\ g \in Groups /\ g < n /\ g # n
    BY <1>1, <2>1 DEF Shown, Full, Before
  <2>3. t.members[n] = m \ {c \in sticky : s.group[c] = n}
    BY <2>1, <2>2 DEF Visible
  <2>4. t.members[n] = m \ sticky
    BY <1>2, <1>3, <2>3
  <2>5. n \in Shown(s) <=> ~(m \subseteq sticky)
    <3>1. ~(\A k \in Full(s) : n <= k)
      BY <1>1, <2>2
    <3>2. n \in Shown(s) <=> n \in Full(s) /\ ~(m \subseteq sticky)
      BY <3>1 DEF Shown, sticky
    <3> QED
      BY <3>2 DEF Full
  <2>6. t.members[n] = {} <=> n \notin Shown(s)
    BY <2>4, <2>5
  <2>7. StickyClients(t) = sticky /\ \A W \in SUBSET Clients : Solid(t, W) = Solid(s, W)
    BY <1>7, <2>1, <2>2
  <2>8. Solid(s, m \ sticky) = Solid(s, m)
    BY <1>2 DEF Solid
  <2>9. Full(s) \cap Before(n) # {}
    BY <2>1, <2>2
  <2>10. t \in State /\ m \ sticky \in SUBSET Clients
    BY <1>3 DEF Toggled
  <2>11. Solid(t, t.members[n]) = Solid(s, m)
    BY <2>4, <2>7, <2>8, <2>10
  <2> HIDE DEF m
  <2>12. StickyClients(t) = StickyClients(s)
    BY <2>7 DEF sticky
  <2> QED
    BY <1>5, <2>6, <2>9, <2>10, <2>11, <2>12 DEF m
<1>10. \/ Full(s) \cap Before(n) = {} /\ Visible(s, L, {}, FirstGroup, t)
       \/ \E g \in Shown(s) \cap Before(n) : Visible(s, L, sticky, g, t)
  BY DEF Toggled, L, sticky
<1> QED
  BY <1>8, <1>9, <1>10

\* The groups before the next group, and their members.
LEMMA BeforeNext ==
  ASSUME NEW s \in State, NEW n \in Groups
  PROVE  /\ Before(n + 1) = Before(n) \cup {n}
         /\ MembersOf(s, Before(n)) \in SUBSET Clients
         /\ s.members[n] \in SUBSET Clients
         /\ MembersOf(s, Before(n + 1)) = MembersOf(s, Before(n)) \cup s.members[n]
         /\ Solid(s, MembersOf(s, Before(n + 1)))
              = Solid(s, MembersOf(s, Before(n))) \cup Solid(s, s.members[n])
<1>1. Before(n + 1) = Before(n) \cup {n} /\ Before(n) \in SUBSET Groups
  BY ClientsAssumption DEF Before, Groups
<1>2. /\ MembersOf(s, Before(n)) \in SUBSET Clients /\ s.members[n] \in SUBSET Clients
      /\ MembersOf(s, Before(n) \cup {n}) = MembersOf(s, Before(n)) \cup s.members[n]
  BY <1>1, MembersOfMore
<1> DEFINE P == MembersOf(s, Before(n))
           Q == s.members[n]
<1> HIDE DEF P, Q
<1>3. Solid(s, P \cup Q) = Solid(s, P) \cup Solid(s, Q)
  BY DEF Solid
<1> QED
  BY <1>1, <1>2, <1>3 DEF P, Q

\* What group_alltoggle does at group n.
Turn(t, n) ==
  IF t.members[n] = {} THEN t
  ELSE IF t.hideall THEN GroupShow(t, n) ELSE GroupHide(t, n)

\* One turn of group_alltoggle when it hides.
LEMMA ToggleHides ==
  ASSUME NEW s \in State, Agree(s), ~s.hideall, NEW n \in Groups,
         NEW t, Toggled(s, n, t)
  PROVE  Toggled(s, n + 1, Turn(t, n)) /\ Turn(t, n).hideall = s.hideall
<1> DEFINE P == MembersOf(s, Before(n))
           Q == s.members[n]
           a == HideAll(s, P)
<1>1. P \in SUBSET Clients /\ Q \in SUBSET Clients
      /\ MembersOf(s, Before(n + 1)) = P \cup Q
  BY BeforeNext
<1>2. a \in State /\ Hidden(s, Solid(s, P), a)
  BY <1>1, HideAllHidden, HideAllMore DEF Solid
<1>3. Like(a, t)
  BY DEF Toggled
<1>4. Like(HideAll(s, P \cup Q), HideAll(a, Q))
  BY <1>1, HideTwice
<1> HIDE DEF P, a
<1>5. t.members[n] = Q /\ t.hideall = s.hideall
  BY <1>2, <1>3 DEF Like, SameButEvents, Hidden
<1> HIDE DEF Q
<1>6. Like(HideAll(a, Q), HideAll(t, Q))
  BY <1>1, <1>3, HideAllLike
<1>7. Like(HideAll(s, P \cup Q), HideAll(t, Q))
  BY <1>4, <1>6, LikeEachOther
<1>8. CASE Q = {}
  <2>1. P \cup Q = P /\ Turn(t, n) = t
    BY <1>5, <1>8 DEF Turn
  <2>2. Like(HideAll(s, P \cup Q), t)
    BY <1>3, <2>1 DEF a
  <2> QED
    BY <1>1, <1>5, <2>1, <2>2 DEF Toggled
<1>9. CASE Q # {}
  <2>1. Turn(t, n) = HideAll(t, Q)
    BY <1>5, <1>9 DEF Turn, GroupHide
  <2>2. HideAll(t, Q).hideall = t.hideall
    BY DEF Like, HideAll
  <2> QED
    BY <1>1, <1>5, <1>7, <2>1, <2>2 DEF Toggled
<1> QED
  BY <1>8, <1>9

\* One turn when it shows: the sticky clients follow to the group shown.
LEMMA ToggleShows ==
  ASSUME NEW s \in State, Agree(s), s.hideall, NEW n \in Groups,
         NEW t, Toggled(s, n, t)
  PROVE  Toggled(s, n + 1, Turn(t, n)) /\ Turn(t, n).hideall = s.hideall
<1> DEFINE L == Solid(s, MembersOf(s, Before(n)))
           M == Solid(s, MembersOf(s, Before(n + 1)))
           N == Solid(s, s.members[n])
           sticky == StickyClients(s)
           u == GroupShow(t, n)
<1>1. n \in Nat /\ Groups \subseteq Nat
  BY ClientsAssumption DEF Groups
<1>2. /\ Before(n + 1) = Before(n) \cup {n}
      /\ M = L \cup N /\ L \in SUBSET Clients /\ N \in SUBSET Clients
  BY BeforeNext DEF Solid
<1>3. /\ t.members[n] = {} <=> n \notin Shown(s)
      /\ n \notin Shown(s) => N = {}
      /\ Solid(t, t.members[n]) = N /\ StickyClients(t) = sticky /\ t \in State
      /\ n \in Full(s) \ Shown(s) => Full(s) \cap Before(n) # {}
  BY ToggleSkips
<1>4. \/ Full(s) \cap Before(n) = {} /\ Visible(s, L, {}, FirstGroup, t)
      \/ \E g \in Shown(s) \cap Before(n) :
           /\ \A h \in Shown(s) \cap Before(n) : h <= g
           /\ Visible(s, L, sticky, g, t)
  BY DEF Toggled
<1>5. FirstGroup \in Groups /\ Shown(s) \subseteq Groups
  BY ClientsAssumption DEF Groups, FirstGroup, Shown, Full
<1> HIDE DEF L, M, N, sticky
<1>6. t.hideall = s.hideall
  BY <1>4 DEF Visible
<1>7. CASE n \notin Shown(s)
  <2>1. Turn(t, n) = t /\ M = L
    BY <1>2, <1>3, <1>7 DEF Turn
  <2>2. Shown(s) \cap Before(n + 1) = Shown(s) \cap Before(n)
    BY <1>2, <1>7
  <2>3. Full(s) \cap Before(n) = {} => Full(s) \cap Before(n + 1) = {}
    BY <1>2, <1>3, <1>7
  <2>4. \/ Full(s) \cap Before(n + 1) = {} /\ Visible(s, M, {}, FirstGroup, t)
        \/ \E g \in Shown(s) \cap Before(n + 1) :
             /\ \A h \in Shown(s) \cap Before(n + 1) : h <= g
             /\ Visible(s, M, sticky, g, t)
    BY <1>4, <2>1, <2>2, <2>3
  <2> QED
    BY <1>3, <1>6, <2>1, <2>4 DEF Toggled, M, sticky
<1>8. CASE n \in Shown(s)
  <2>1. Turn(t, n) = u
    BY <1>3, <1>6, <1>8 DEF Turn
  <2>2. u \in State /\ Visible(t, N, sticky, n, u)
    <3>1. /\ u \in State
          /\ Visible(t, Solid(t, t.members[n]), StickyClients(t), n, u)
      BY <1>3, GroupShowVisible
    <3> HIDE DEF u
    <3> QED
      BY <1>3, <3>1
  <2> HIDE DEF u
  <2>3. Visible(s, L \cup N, sticky, n, u)
    <3>1. CASE Full(s) \cap Before(n) = {} /\ Visible(s, L, {}, FirstGroup, t)
      <4> QED
        BY <1>2, <1>3, <1>5, <2>2, <3>1, VisibleTwice DEF sticky
    <3>2. CASE \E g \in Shown(s) \cap Before(n) : Visible(s, L, sticky, g, t)
      <4>1. PICK g \in Shown(s) \cap Before(n) : Visible(s, L, sticky, g, t)
        BY <3>2
      <4>2. g \in Groups /\ n # g
        BY <1>1, <1>5, <4>1 DEF Before
      <4> QED
        BY <1>2, <1>3, <2>2, <4>1, <4>2, VisibleTwice DEF sticky
    <3> QED
      BY <1>4, <3>1, <3>2
  <2>4. n \in Shown(s) \cap Before(n + 1)
        /\ \A h \in Shown(s) \cap Before(n + 1) : h <= n
    BY <1>1, <1>2, <1>5, <1>8 DEF Before
  <2>5. u.hideall = s.hideall
    BY <2>3 DEF Visible
  <2>6. \E g \in Shown(s) \cap Before(n + 1) :
             /\ \A h \in Shown(s) \cap Before(n + 1) : h <= g
             /\ Visible(s, M, sticky, g, u)
    BY <1>2, <2>3, <2>4
  <2> QED
    BY <2>1, <2>2, <2>5, <2>6 DEF Toggled, M, sticky
<1> QED
  BY <1>7, <1>8

\* The last assignment of group_alltoggle.
Flip(s) == [s EXCEPT !.hideall = ~@]

\* It changes nothing but hideall.
LEMMA FlipFields ==
  ASSUME NEW s \in State
  PROVE  LET t == Flip(s)
         IN /\ t \in State /\ t.hideall = ~s.hideall
            /\ t.clientq = s.clientq /\ t.flags = s.flags /\ t.group = s.group
            /\ t.members = s.members /\ t.hidden_groups = s.hidden_groups
            /\ t.group_current = s.group_current
            /\ t.cycling = s.cycling /\ t.curcc = s.curcc /\ t.alive = s.alive
            /\ t.app = s.app /\ t.mapped = s.mapped /\ t.wm_state = s.wm_state
            /\ t.wm_desktop = s.wm_desktop /\ t.net_active = s.net_active
            /\ t.net_desktop = s.net_desktop /\ t.net_clients = s.net_clients
            /\ t.evq = s.evq
            /\ StickyClients(t) = StickyClients(s)
            /\ \A W : Solid(t, W) = Solid(s, W)
<1> DEFINE t == Flip(s)
<1>1. /\ t \in State /\ t.hideall = ~s.hideall
      /\ t.clientq = s.clientq /\ t.flags = s.flags /\ t.group = s.group
      /\ t.members = s.members /\ t.hidden_groups = s.hidden_groups
      /\ t.group_current = s.group_current
      /\ t.cycling = s.cycling /\ t.curcc = s.curcc /\ t.alive = s.alive
      /\ t.app = s.app /\ t.mapped = s.mapped /\ t.wm_state = s.wm_state
      /\ t.wm_desktop = s.wm_desktop /\ t.net_active = s.net_active
      /\ t.net_desktop = s.net_desktop /\ t.net_clients = s.net_clients
      /\ t.evq = s.evq
  BY DEF Flip, State
<1> HIDE DEF t
<1>2. StickyClients(t) = StickyClients(s) /\ \A W : Solid(t, W) = Solid(s, W)
  BY <1>1 DEF StickyClients, Managed, Has, Solid
<1> QED
  BY <1>1, <1>2 DEF t

\* Hiding with the flag already changed, or before it changes.
LEMMA FlipHides ==
  ASSUME NEW s \in State, NEW W \in SUBSET Clients,
         NEW t, Like(HideAll(s, W), t)
  PROVE  Like(HideAll(Flip(s), W), Flip(t))
<1> DEFINE f == Flip(s)
           a == HideAll(s, W)
           b == HideAll(f, W)
           u == Flip(t)
           L == Solid(s, W)
           U == {w \in L \cap Windows : s.mapped[w]}
<1>1. /\ f \in State /\ Solid(f, W) = L /\ f.hideall = ~s.hideall
      /\ f.clientq = s.clientq /\ f.flags = s.flags /\ f.group = s.group
      /\ f.members = s.members /\ f.hidden_groups = s.hidden_groups
      /\ f.group_current = s.group_current
      /\ f.cycling = s.cycling /\ f.curcc = s.curcc /\ f.alive = s.alive
      /\ f.app = s.app /\ f.mapped = s.mapped /\ f.wm_state = s.wm_state
      /\ f.wm_desktop = s.wm_desktop /\ f.net_active = s.net_active
      /\ f.net_desktop = s.net_desktop /\ f.net_clients = s.net_clients
      /\ f.evq = s.evq
  BY FlipFields
<1>2. a \in State /\ Hidden(s, L, a) /\ a.evq = s.evq \o Events("UnmapNotify", U)
  BY HideAllHidden, HideAllMore DEF Solid
<1> HIDE DEF f, L
<1>3. /\ b \in State /\ Hidden(f, L, b)
      /\ b.evq = s.evq \o Events("UnmapNotify", U)
  <2>1. /\ b \in State /\ Hidden(f, Solid(f, W), b)
        /\ b.evq = f.evq \o Events("UnmapNotify", {w \in Solid(f, W) \cap Windows : f.mapped[w]})
    BY <1>1, HideAllHidden, HideAllMore DEF Solid
  <2> HIDE DEF b
  <2> QED
    BY <1>1, <2>1
<1>4. Like(a, t)
  OBVIOUS
<1> HIDE DEF a, b, U
<1>5. /\ u \in State /\ u.hideall = ~t.hideall
      /\ u.clientq = t.clientq /\ u.flags = t.flags /\ u.group = t.group
      /\ u.members = t.members /\ u.hidden_groups = t.hidden_groups
      /\ u.group_current = t.group_current
      /\ u.cycling = t.cycling /\ u.curcc = t.curcc /\ u.alive = t.alive
      /\ u.app = t.app /\ u.mapped = t.mapped /\ u.wm_state = t.wm_state
      /\ u.wm_desktop = t.wm_desktop /\ u.net_active = t.net_active
      /\ u.net_desktop = t.net_desktop /\ u.net_clients = t.net_clients
      /\ u.evq = t.evq
  BY <1>4, FlipFields DEF Like
<1> HIDE DEF u
<1>6. SetProperty(f, f.wm_state, L, "Iconic") = SetProperty(s, s.wm_state, L, "Iconic")
  BY <1>1 DEF SetProperty
<1>7. SameButEvents(a, t) /\ ToSet(t.evq) = ToSet(a.evq) /\ Len(t.evq) = Len(a.evq)
  BY <1>4 DEF Like
<1>8. SameButEvents(b, u)
  BY <1>1, <1>2, <1>3, <1>5, <1>6, <1>7 DEF SameButEvents, Hidden
<1> QED
  BY <1>2, <1>3, <1>5, <1>7, <1>8 DEF Like, b, u, f

\* Showing, likewise.
LEMMA FlipShows ==
  ASSUME NEW s \in State, NEW L, NEW K, NEW g \in Groups,
         NEW t \in State, Visible(s, L, K, g, t),
         NEW r \in State, Visible(Flip(s), L, K, g, r)
  PROVE  Like(r, Flip(t))
<1> DEFINE f == Flip(s)
           u == Flip(t)
<1>1. /\ f \in State /\ f.hideall = ~s.hideall
      /\ f.clientq = s.clientq /\ f.flags = s.flags /\ f.group = s.group
      /\ f.members = s.members /\ f.hidden_groups = s.hidden_groups
      /\ f.group_current = s.group_current
      /\ f.cycling = s.cycling /\ f.curcc = s.curcc /\ f.alive = s.alive
      /\ f.app = s.app /\ f.mapped = s.mapped /\ f.wm_state = s.wm_state
      /\ f.wm_desktop = s.wm_desktop /\ f.net_active = s.net_active
      /\ f.net_desktop = s.net_desktop /\ f.net_clients = s.net_clients
      /\ f.evq = s.evq
  BY FlipFields
<1>2. /\ u \in State /\ u.hideall = ~t.hideall
      /\ u.clientq = t.clientq /\ u.flags = t.flags /\ u.group = t.group
      /\ u.members = t.members /\ u.hidden_groups = t.hidden_groups
      /\ u.group_current = t.group_current
      /\ u.cycling = t.cycling /\ u.curcc = t.curcc /\ u.alive = t.alive
      /\ u.app = t.app /\ u.mapped = t.mapped /\ u.wm_state = t.wm_state
      /\ u.wm_desktop = t.wm_desktop /\ u.net_active = t.net_active
      /\ u.net_desktop = t.net_desktop /\ u.net_clients = t.net_clients
      /\ u.evq = t.evq
  BY FlipFields
<1>3. Visible(f, L, K, g, r)
  OBVIOUS
<1> HIDE DEF f, u
<1>4. /\ SetProperty(f, f.wm_state, L, "Normal") = SetProperty(s, s.wm_state, L, "Normal")
      /\ SetProperty(f, f.wm_desktop, K, g) = SetProperty(s, s.wm_desktop, K, g)
  BY <1>1 DEF SetProperty
<1>5. SameButEvents(r, u)
  <2>1. r.hideall = u.hideall
    BY <1>1, <1>2, <1>3 DEF Visible
  <2>2. r.group = t.group /\ r.members = t.members /\ r.mapped = t.mapped
    <3>1. r.group = t.group
      BY <1>1, <1>3 DEF Visible
    <3>2. r.members = t.members
      <4>1. r.members = [h \in Groups |->
                           IF h = g THEN f.members[h] \cup K
                           ELSE f.members[h] \ {c \in K : f.group[c] = h}]
        BY <1>3 DEF Visible
      <4>2. t.members = [h \in Groups |->
                           IF h = g THEN s.members[h] \cup K
                           ELSE s.members[h] \ {c \in K : s.group[c] = h}]
        BY DEF Visible
      <4>3. \A h : {c \in K : f.group[c] = h} = {c \in K : s.group[c] = h}
        BY <1>1
      <4>4. f.members = s.members
        BY <1>1
      <4>5. ASSUME NEW h \in Groups
            PROVE  r.members[h] = t.members[h]
        <5>1. r.members[h] = IF h = g THEN f.members[h] \cup K
                             ELSE f.members[h] \ {c \in K : f.group[c] = h}
          BY <4>1
        <5>2. t.members[h] = IF h = g THEN s.members[h] \cup K
                             ELSE s.members[h] \ {c \in K : s.group[c] = h}
          BY <4>2
        <5> QED
          BY <4>3, <4>4, <5>1, <5>2
      <4>6. r.members \in [Groups -> SUBSET Clients] /\ t.members \in [Groups -> SUBSET Clients]
        BY DEF State
      <4> QED
        BY <4>5, <4>6
    <3>3. r.mapped = t.mapped
      BY <1>1, <1>3 DEF Visible
    <3> QED
      BY <3>1, <3>2, <3>3
  <2>3. r.wm_state = t.wm_state /\ r.wm_desktop = t.wm_desktop
    BY <1>1, <1>3, <1>4 DEF Visible
  <2>4. /\ r.clientq = t.clientq /\ r.flags = t.flags
        /\ r.hidden_groups = t.hidden_groups /\ r.group_current = t.group_current
        /\ r.cycling = t.cycling /\ r.curcc = t.curcc /\ r.alive = t.alive
        /\ r.app = t.app /\ r.net_active = t.net_active
        /\ r.net_desktop = t.net_desktop /\ r.net_clients = t.net_clients
    BY <1>1, <1>3 DEF Visible
  <2> QED
    BY <1>2, <2>1, <2>2, <2>3, <2>4 DEF SameButEvents
<1>6. u.evq = r.evq
  BY <1>1, <1>2, <1>3 DEF Visible
<1> QED
  BY <1>2, <1>5, <1>6 DEF Like, u

\* After the last group it has left what the closed form says.
LEMMA ToggleEnd ==
  ASSUME NEW s \in State, NEW t, Toggled(s, LastGroup + 1, t)
  PROVE  Like(GroupAllToggle(s), Flip(t))
<1> DEFINE f     == Flip(s)
           all   == UNION {s.members[g] : g \in Full(s)}
           v     == UnhideAll(f, all)
           last  == {g \in Shown(s) : \A h \in Shown(s) : h <= g}
           L     == Solid(s, all)
           sticky == StickyClients(s)
<1>1. Before(LastGroup + 1) = Groups /\ Groups \subseteq Nat /\ FirstGroup \in Groups
  BY ClientsAssumption DEF Before, Groups, LastGroup, FirstGroup
<1>2. all = MembersOf(s, Groups) /\ all \in SUBSET Clients
  BY DEF Full, MembersOf, State
<1>3. Shown(s) \subseteq Full(s) /\ Full(s) \subseteq Groups
  BY DEF Shown, Full
<1>4. f \in State /\ Solid(f, all) = L /\ StickyClients(f) = sticky
  BY FlipFields
<1>5. GroupAllToggle(s) =
        IF ~s.hideall THEN HideAll(f, all)
        ELSE IF last = {} THEN v ELSE AssignAll(v, StickyClients(v), CHOOSE g \in last : TRUE)
  BY DEF GroupAllToggle, Full, Shown, Flip
<1> HIDE DEF all, last
<1>6. CASE ~s.hideall
  <2>1. Like(HideAll(s, all), t)
    BY <1>1, <1>2, <1>6 DEF Toggled
  <2> QED
    BY <1>2, <1>5, <1>6, <2>1, FlipHides
<1>7. CASE s.hideall
  <2>1. /\ t \in State
        /\ \/ /\ Full(s) = {}
              /\ Visible(s, L, {}, FirstGroup, t)
           \/ \E g \in Shown(s) :
                /\ \A h \in Shown(s) : h <= g
                /\ Visible(s, L, sticky, g, t)
    <3>1. Full(s) \cap Before(LastGroup + 1) = Full(s)
          /\ Shown(s) \cap Before(LastGroup + 1) = Shown(s)
      BY <1>1, <1>3
    <3> QED
      BY <1>1, <1>2, <1>7, <3>1 DEF Toggled
  <2>2. CASE Full(s) = {} /\ Visible(s, L, {}, FirstGroup, t)
    <3>1. last = {}
      BY <1>3, <2>2 DEF last
    <3>2. GroupAllToggle(s) = v
      BY <1>5, <1>7, <3>1
    <3>3. v \in State /\ Visible(f, L, {}, FirstGroup, v)
      <4>1. v \in State /\ Visible(f, Solid(f, all), {}, FirstGroup, v)
        <5> HIDE DEF f
        <5> QED
          BY <1>1, <1>2, <1>4, UnhideVisible
      <4> HIDE DEF v, L, f
      <4> QED
        BY <1>4, <4>1
    <3> HIDE DEF v, L
    <3> QED
      BY <1>1, <2>1, <2>2, <3>2, <3>3, FlipShows
  <2>3. CASE \E g \in Shown(s) : (\A h \in Shown(s) : h <= g) /\ Visible(s, L, sticky, g, t)
    <3>1. PICK g \in Shown(s) : (\A h \in Shown(s) : h <= g) /\ Visible(s, L, sticky, g, t)
      BY <2>3
    <3>2. g \in Groups /\ \A h \in last : h = g
      <4>1. g \in Nat /\ g \in Groups /\ last \subseteq Shown(s) /\ Shown(s) \subseteq Nat
        BY <1>1, <1>3, <3>1 DEF last
      <4>2. \A h \in last : h <= g /\ g <= h
        BY <3>1, <4>1 DEF last
      <4> QED
        BY <4>1, <4>2
    <3>3. g \in last
      BY <3>1 DEF last
    <3>4. (CHOOSE h \in last : TRUE) = g
      BY <3>2, <3>3
    <3> DEFINE r == AssignAll(v, StickyClients(v), g)
    <3>5. GroupAllToggle(s) = r
      BY <1>5, <1>7, <3>3, <3>4
    <3>6. r \in State /\ Visible(f, L, sticky, g, r)
      <4>1. r \in State /\ Visible(f, Solid(f, all), StickyClients(f), g, r)
        <5> HIDE DEF f
        <5> QED
          BY <1>2, <1>4, <3>2, ShowVisible
      <4> HIDE DEF r, L, sticky, f
      <4> QED
        BY <1>4, <4>1
    <3> HIDE DEF r, L, sticky
    <3> QED
      BY <2>1, <3>1, <3>2, <3>5, <3>6, FlipShows
  <2> QED
    BY <2>1, <2>2, <2>3
<1> QED
  BY <1>6, <1>7

----------------------------------------------------------------------------
(* client_cycle.                                                           *)

\* Turning around a list of n elements, no more than once either way.
LEMMA Wraps ==
  ASSUME NEW n \in Nat \ {0}, NEW a \in Int, -n <= a, a < 2 * n
  PROVE  a % n = IF a < 0 THEN a + n ELSE IF a < n THEN a ELSE a - n
<1>1. CASE a < 0
  BY <1>1
<1>2. CASE 0 <= a /\ a < n
  BY <1>2
<1>3. CASE n <= a
  BY <1>3
<1> QED
  BY <1>1, <1>2, <1>3

\* The place in the list after k turns of the loop from place p.
Spot(p, dir, k, n) == ((p - 1 + dir * k) % n) + 1

\* A turn goes one place on and wraps at both ends, and the place it began with
\* is back after n turns and no earlier.
LEMMA SpotTurns ==
  \A dir \in {1, -1} : \A n \in Nat \ {0} : \A p \in 1 .. n : \A k \in 0 .. n - 1 :
    /\ Spot(p, dir, k, n) \in 1 .. n
    /\ Spot(p, dir, 0, n) = p
    /\ (Spot(p, dir, k + 1, n) = p <=> k + 1 = n)
    /\ Spot(p, dir, k + 1, n) =
         IF Spot(p, dir, k, n) + dir > n THEN 1
         ELSE IF Spot(p, dir, k, n) + dir < 1 THEN n
         ELSE Spot(p, dir, k, n) + dir
<1> SUFFICES ASSUME NEW dir \in {1, -1}, NEW n \in Nat \ {0}, NEW p \in 1 .. n,
                    NEW k \in 0 .. n - 1
             PROVE  /\ Spot(p, dir, k, n) \in 1 .. n
                    /\ Spot(p, dir, 0, n) = p
                    /\ (Spot(p, dir, k + 1, n) = p <=> k + 1 = n)
                    /\ Spot(p, dir, k + 1, n) =
                         IF Spot(p, dir, k, n) + dir > n THEN 1
                         ELSE IF Spot(p, dir, k, n) + dir < 1 THEN n
                         ELSE Spot(p, dir, k, n) + dir
  OBVIOUS
<1> DEFINE W(a) == IF a < 0 THEN a + n ELSE IF a < n THEN a ELSE a - n
<1>1. Spot(p, dir, 0, n) = W(p - 1) + 1
  <2>1. p - 1 + dir * 0 = p - 1 /\ p - 1 \in Int /\ -n <= p - 1 /\ p - 1 < 2 * n
    OBVIOUS
  <2> QED
    BY <2>1, Wraps DEF Spot
<1>2. CASE dir = 1
  <2>1. p - 1 + dir * k = p - 1 + k /\ p - 1 + dir * (k + 1) = p + k
    BY <1>2
  <2>2. /\ p - 1 + k \in Int /\ -n <= p - 1 + k /\ p - 1 + k < 2 * n
        /\ p + k \in Int /\ -n <= p + k /\ p + k < 2 * n
    OBVIOUS
  <2>3. Spot(p, dir, k, n) = W(p - 1 + k) + 1 /\ Spot(p, dir, k + 1, n) = W(p + k) + 1
    BY <2>1, <2>2, Wraps DEF Spot
  <2> QED
    BY <1>1, <1>2, <2>3
<1>3. CASE dir = -1
  <2>1. p - 1 + dir * k = p - 1 - k /\ p - 1 + dir * (k + 1) = p - 2 - k
    BY <1>3
  <2>2. /\ p - 1 - k \in Int /\ -n <= p - 1 - k /\ p - 1 - k < 2 * n
        /\ p - 2 - k \in Int /\ -n <= p - 2 - k /\ p - 2 - k < 2 * n
    OBVIOUS
  <2>3. Spot(p, dir, k, n) = W(p - 1 - k) + 1 /\ Spot(p, dir, k + 1, n) = W(p - 2 - k) + 1
    BY <2>1, <2>2, Wraps DEF Spot
  <2> QED
    BY <1>1, <1>3, <2>3
<1> QED
  BY <1>2, <1>3

\* A list that holds no window twice, with a window that is in it when a client
\* is current: what ListsAgree and ActiveIsCurrent say of module Cwm.
Listed(s) ==
  /\ \A i, j \in DOMAIN s.clientq : s.clientq[i] = s.clientq[j] => i = j
  /\ s.curcc # NoClient => s.curcc \in Managed(s)

\* The client that client_cycle meets at its k-th turn, and its test.
Place(s, dir) ==
  CHOOSE i \in 1 .. Len(s.clientq) : s.clientq[i] = OldClient(s, dir)
Met(s, dir, k) == s.clientq[Spot(Place(s, dir), dir, k, Len(s.clientq))]
Eligible(s, dir, ingroup, c) ==
  /\ s.flags[c] \cap {"HIDDEN", "IGNORE"} = {}
  /\ ingroup => s.group[c] = s.group[OldClient(s, dir)]

\* What the clients met are: a turn is a step of client_next or client_prev, and
\* the old client comes back after as many turns as there are clients.
LEMMA MetTurns ==
  ASSUME NEW s \in State, Listed(s), s.clientq # <<>>, NEW dir \in {1, -1},
         NEW k \in 0 .. Len(s.clientq) - 1
  PROVE  /\ Len(s.clientq) \in Nat \ {0}
         /\ Met(s, dir, k + 1) = Step(s.clientq, Met(s, dir, k), dir)
         /\ Met(s, dir, 0) = OldClient(s, dir)
         /\ (Met(s, dir, k + 1) = OldClient(s, dir) <=> k + 1 = Len(s.clientq))
         /\ Met(s, dir, k + 1) \in Windows
<1>0. \A m \in Nat \ {0} : \A x \in 1 .. m : \A y \in 0 .. m - 1 :
        /\ Spot(x, dir, y, m) \in 1 .. m
        /\ Spot(x, dir, 0, m) = x
        /\ (Spot(x, dir, y + 1, m) = x <=> y + 1 = m)
        /\ Spot(x, dir, y + 1, m) =
             IF Spot(x, dir, y, m) + dir > m THEN 1
             ELSE IF Spot(x, dir, y, m) + dir < 1 THEN m
             ELSE Spot(x, dir, y, m) + dir
  BY SpotTurns
<1> DEFINE q == s.clientq
           n == Len(q)
           p == Place(s, dir)
           old == OldClient(s, dir)
           i == Spot(p, dir, k, n)
           j == Spot(p, dir, k + 1, n)
<1>1. q \in Seq(Windows) /\ n \in Nat \ {0} /\ DOMAIN q = 1 .. n
  BY EmptySeq, LenProperties DEF State
<1>2. \E m \in 1 .. n : q[m] = old
  <2>1. CASE s.curcc # NoClient
    BY <1>1, <2>1 DEF Listed, Managed, ToSet, OldClient
  <2>2. CASE s.curcc = NoClient
    <3>1. Head(q) = q[1] /\ Last(q) = q[n]
      BY <1>1 DEF Last
    <3>2. old = q[1] \/ old = q[n]
      BY <2>2, <3>1 DEF OldClient
    <3> QED
      BY <1>1, <3>2
  <2> QED
    BY <2>1, <2>2
<1>3. p \in 1 .. n /\ q[p] = old
  BY <1>2 DEF Place
<1> HIDE DEF p, old
<1>4. /\ i \in 1 .. n /\ Spot(p, dir, 0, n) = p
      /\ (j = p <=> k + 1 = n)
      /\ j = IF i + dir > n THEN 1 ELSE IF i + dir < 1 THEN n ELSE i + dir
  <2> DEFINE m == n
  <2>1. m \in Nat \ {0} /\ p \in 1 .. m /\ k \in 0 .. m - 1
    BY <1>1, <1>3
  <2> HIDE DEF m
  <2>2. Spot(p, dir, k, m) \in 1 .. m /\ Spot(p, dir, 0, m) = p
    BY <1>0, <2>1, Zenon
  <2>3. Spot(p, dir, k + 1, m) = p <=> k + 1 = m
    BY <1>0, <2>1, Zenon
  <2>4. Spot(p, dir, k + 1, m) =
          IF Spot(p, dir, k, m) + dir > m THEN 1
          ELSE IF Spot(p, dir, k, m) + dir < 1 THEN m
          ELSE Spot(p, dir, k, m) + dir
    BY <1>0, <2>1, Zenon
  <2> QED
    BY <2>2, <2>3, <2>4, Zenon DEF m
<1>5. j \in 1 .. n
  BY <1>1, <1>4
<1>6. Met(s, dir, k) = q[i] /\ Met(s, dir, k + 1) = q[j] /\ Met(s, dir, 0) = q[p]
  BY <1>4 DEF Met, p
<1> HIDE DEF i, j
<1>7. \A a, b \in 1 .. n : q[a] = q[b] => a = b
  BY <1>1 DEF Listed
<1>8. (CHOOSE m \in DOMAIN q : q[m] = q[i]) = i
  BY <1>1, <1>4, <1>7
<1>9. Step(q, q[i], dir) = q[j]
  <2> DEFINE m == CHOOSE a \in DOMAIN q : q[a] = q[i]
  <2>1. Step(q, q[i], dir) = q[IF m + dir > n THEN 1 ELSE IF m + dir < 1 THEN n ELSE m + dir]
    BY DEF Step
  <2>2. m = i
    BY <1>8
  <2> HIDE DEF m
  <2> QED
    BY <1>4, <2>1, <2>2
<1>10. q[j] = old <=> k + 1 = n
  BY <1>3, <1>4, <1>5, <1>7
<1> QED
  BY <1>1, <1>3, <1>5, <1>6, <1>9, <1>10 DEF old

\* The closed form, in terms of the clients met.
LEMMA CycleMeets ==
  ASSUME NEW s \in State, Listed(s), s.clientq # <<>>, NEW dir \in {1, -1},
         NEW ingroup \in BOOLEAN
  PROVE  LET hits == {k \in 1 .. Len(s.clientq) :
                        Eligible(s, dir, ingroup, Met(s, dir, k))}
         IN CycleTarget(s, dir, ingroup) =
              IF hits = {} THEN NoClient
              ELSE Met(s, dir, CHOOSE k \in hits : \A j \in hits : k <= j)
<1> DEFINE q == s.clientq
           n == Len(q)
           old == IF s.curcc # NoClient THEN s.curcc
                  ELSE IF dir = 1 THEN q[1] ELSE q[n]
           pos == CHOOSE i \in 1 .. n : q[i] = old
           At(k) == q[((pos - 1 + dir * k) % n) + 1]
           H == {k \in 1 .. n :
                   /\ s.flags[At(k)] \cap {"HIDDEN", "IGNORE"} = {}
                   /\ ingroup => s.group[At(k)] = s.group[old]}
           hits == {k \in 1 .. n : Eligible(s, dir, ingroup, Met(s, dir, k))}
<1>0. CycleTarget(s, dir, ingroup) =
        IF H = {} THEN NoClient
        ELSE At(CHOOSE k \in H : \A j \in H : k <= j)
  BY DEF CycleTarget
<1>1. s.clientq \in Seq(Windows)
  BY DEF State
<1>2. old = OldClient(s, dir)
  <2>1. Head(s.clientq) = s.clientq[1] /\ Last(s.clientq) = s.clientq[Len(s.clientq)]
    BY <1>1, EmptySeq, LenProperties DEF Last
  <2> QED
    BY <2>1 DEF OldClient
<1> HIDE DEF old
<1>3. pos = Place(s, dir)
  BY <1>2 DEF Place
<1> HIDE DEF pos
<1>4. \A k : At(k) = Met(s, dir, k)
  BY <1>3 DEF Met, Spot
<1> HIDE DEF At
<1>5. H = hits
  BY <1>2, <1>4 DEF Eligible
<1> HIDE DEF H, hits
<1> QED
  BY <1>0, <1>4, <1>5 DEF hits

\* The client newcc when client_cycle has met no client it may go to.
Passed(s, dir, ingroup, x) ==
  \E k \in 0 .. Len(s.clientq) - 1 :
    /\ x = Met(s, dir, k)
    /\ \A j \in 1 .. k : ~Eligible(s, dir, ingroup, Met(s, dir, j))

\* One turn of client_cycle: it ends on a client it may go to, which is the
\* nearest, or back where it began when there is none.
LEMMA CycleTurns ==
  ASSUME NEW s \in State, Listed(s), s.clientq # <<>>, NEW dir \in {1, -1},
         NEW ingroup \in BOOLEAN, NEW x, Passed(s, dir, ingroup, x)
  PROVE  LET newcc == Step(s.clientq, x, dir)
         IN IF Eligible(s, dir, ingroup, newcc)
              THEN Cycle(s, dir, ingroup)
                     = PtrWarp([s EXCEPT !.cycling = TRUE], newcc)
            ELSE IF newcc = OldClient(s, dir) THEN Cycle(s, dir, ingroup) = s
            ELSE Passed(s, dir, ingroup, newcc)
<1> DEFINE n == Len(s.clientq)
           newcc == Step(s.clientq, x, dir)
           E(k) == Eligible(s, dir, ingroup, Met(s, dir, k))
           hits == {k \in 1 .. n : E(k)}
<1>1. PICK k \in 0 .. n - 1 : x = Met(s, dir, k) /\ \A j \in 1 .. k : ~E(j)
  BY DEF Passed
<1>2. /\ n \in Nat \ {0} /\ newcc = Met(s, dir, k + 1) /\ newcc \in Windows
      /\ (newcc = OldClient(s, dir) <=> k + 1 = n)
  BY <1>1, MetTurns
<1>3. NoClient \notin Windows
  BY ClientsAssumption DEF Clients
<1>4. CycleTarget(s, dir, ingroup) =
        IF hits = {} THEN NoClient
        ELSE Met(s, dir, CHOOSE m \in hits : \A j \in hits : m <= j)
  BY CycleMeets
<1>5. k + 1 \in 1 .. n /\ \A j \in 1 .. k + 1 : j = k + 1 \/ j \in 1 .. k
  BY <1>2
<1> HIDE DEF newcc
<1>6. CASE E(k + 1)
  <2>1. k + 1 \in hits /\ \A j \in hits : k + 1 <= j
    <3>1. \A j \in hits : j \in 1 .. n /\ E(j)
      OBVIOUS
    <3> HIDE DEF E
    <3>2. \A j \in hits : j \notin 1 .. k
      BY <1>1, <3>1
    <3> QED
      BY <1>2, <1>5, <1>6, <3>1, <3>2
  <2>2. hits \subseteq Nat
    BY <1>2
  <2> HIDE DEF E, hits
  <2>3. (CHOOSE m \in hits : \A j \in hits : m <= j) = k + 1
    <3>1. \A m \in hits : (\A j \in hits : m <= j) => m = k + 1
      <4>1. ASSUME NEW m \in hits, \A j \in hits : m <= j
            PROVE  m = k + 1
        <5>1. m \in Nat /\ k + 1 \in Nat /\ m <= k + 1 /\ k + 1 <= m
          BY <2>1, <2>2, <4>1
        <5> QED
          BY <5>1
      <4> QED
        BY <4>1
    <3> QED
      BY <2>1, <3>1
  <2>4. CycleTarget(s, dir, ingroup) = newcc
    BY <1>2, <1>4, <2>1, <2>3
  <2>5. Cycle(s, dir, ingroup) = PtrWarp([s EXCEPT !.cycling = TRUE], newcc)
    BY <1>2, <1>3, <2>4 DEF Cycle
  <2> QED
    BY <1>2, <1>6, <2>5 DEF newcc, E
<1>7. CASE ~E(k + 1) /\ k + 1 = n
  <2>1. hits = {}
    <3> HIDE DEF E
    <3> QED
      BY <1>1, <1>5, <1>7
  <2>2. Cycle(s, dir, ingroup) = s
    BY <1>4, <2>1 DEF Cycle
  <2> QED
    BY <1>2, <1>7, <2>2 DEF newcc
<1>8. CASE ~E(k + 1) /\ k + 1 # n
  <2>1. k + 1 \in 0 .. n - 1
    BY <1>2, <1>8
  <2>2. \A j \in 1 .. k + 1 : ~E(j)
    <3> HIDE DEF E
    <3> QED
      BY <1>1, <1>5, <1>8
  <2>3. Passed(s, dir, ingroup, newcc)
    BY <1>2, <2>1, <2>2 DEF Passed
  <2> QED
    BY <1>2, <1>8, <2>3 DEF newcc
<1> QED
  BY <1>6, <1>7, <1>8

----------------------------------------------------------------------------
(* The loops.                                                              *)

\* Where each loop is: what it has left so far, and after its end.
InGroupOnly ==
  /\ loop = "group_only" /\ arg \in Groups /\ at \in Groups
  /\ IF done THEN Like(GroupOnly(before, arg), now)
             ELSE Like(Only(before, arg, at), now)

InAllToggle ==
  /\ loop = "group_alltoggle" /\ arg = "none" /\ at \in Groups
  /\ IF done THEN Like(GroupAllToggle(before), now)
             ELSE Toggled(before, at, now) /\ now.hideall = before.hideall

InCycle ==
  /\ loop = "client_cycle" /\ arg \in {1, -1} \X BOOLEAN
  /\ before.clientq # <<>>
  /\ IF done THEN now = Cycle(before, arg[1], arg[2])
             ELSE now = before /\ Passed(before, arg[1], arg[2], at)

LoopInv ==
  /\ before \in Starts /\ done \in BOOLEAN
  /\ InGroupOnly \/ InAllToggle \/ InCycle

\* The screens that the loops begin with.
LEMMA StartsCoherent ==
  ASSUME NEW s \in Starts
  PROVE  s \in State /\ Agree(s) /\ Listed(s)
BY LoopsAssumption DEF Coherent, Agree, Listed

\* The first turn has nothing behind it.
LEMMA LoopInitInv == LoopInit => LoopInv
<1> SUFFICES ASSUME LoopInit PROVE LoopInv
  OBVIOUS
<1>1. before \in Starts /\ now = before /\ done = FALSE
  BY DEF LoopInit
<1>2. before \in State /\ Agree(before) /\ Listed(before)
  BY <1>1, StartsCoherent
<1>3. FirstGroup \in Groups
  BY ClientsAssumption DEF Groups, FirstGroup
<1>4. CASE loop = "group_only" /\ arg \in Groups /\ at = FirstGroup
  BY <1>1, <1>2, <1>3, <1>4, OnlyStart DEF LoopInv, InGroupOnly
<1>5. CASE loop = "group_alltoggle" /\ arg = "none" /\ at = FirstGroup
  BY <1>1, <1>2, <1>3, <1>5, ToggleStart DEF LoopInv, InAllToggle
<1>6. CASE /\ loop = "client_cycle" /\ arg \in {1, -1} \X BOOLEAN
           /\ before.clientq # <<>>
           /\ at = OldClient(before, arg[1])
  <2>1. arg[1] \in {1, -1}
    BY <1>6
  <2>2. Len(before.clientq) \in Nat \ {0}
    BY <1>2, <1>6, EmptySeq, LenProperties DEF State
  <2>3. 0 \in 0 .. Len(before.clientq) - 1
    BY <2>2
  <2>4. at = Met(before, arg[1], 0)
    BY <1>2, <1>6, <2>1, <2>3, MetTurns
  <2>5. Passed(before, arg[1], arg[2], at)
    BY <2>3, <2>4 DEF Passed
  <2> QED
    BY <1>1, <1>6, <2>5 DEF LoopInv, InCycle
<1> QED
  BY <1>4, <1>5, <1>6 DEF LoopInit

\* One turn of group_only.
LEMMA GroupOnlyTurns ==
  ASSUME LoopInv, ~done, GroupOnlyStep, UNCHANGED <<before, loop, arg>>
  PROVE  LoopInv'
<1>1. before \in State /\ Agree(before)
  BY StartsCoherent DEF LoopInv
<1>2. /\ loop = "group_only" /\ arg \in Groups /\ at \in Groups
      /\ Like(Only(before, arg, at), now)
  BY DEF LoopInv, InGroupOnly, InAllToggle, InCycle, GroupOnlyStep
<1>3. Like(Only(before, arg, at + 1), now')
  BY <1>1, <1>2, OnlyStep DEF GroupOnlyStep
<1>4. at' = (IF at = LastGroup THEN at ELSE at + 1) /\ done' = (at = LastGroup)
  BY DEF GroupOnlyStep, NextGroup
<1>5. at # LastGroup => at + 1 \in Groups
  BY <1>2, ClientsAssumption DEF LastGroup, Groups
<1>6. CASE at = LastGroup
  <2>1. Like(GroupOnly(before, arg), now')
    BY <1>1, <1>2, <1>3, <1>6, OnlyEnd
  <2> QED
    BY <1>2, <1>4, <1>6, <2>1 DEF LoopInv, InGroupOnly
<1>7. CASE at # LastGroup
  BY <1>2, <1>3, <1>4, <1>5, <1>7 DEF LoopInv, InGroupOnly
<1> QED
  BY <1>6, <1>7

\* One turn of group_alltoggle.
LEMMA AllToggleTurns ==
  ASSUME LoopInv, ~done, AllToggleStep, UNCHANGED <<before, loop, arg>>
  PROVE  LoopInv'
<1>1. before \in State /\ Agree(before)
  BY StartsCoherent DEF LoopInv
<1>2. /\ loop = "group_alltoggle" /\ arg = "none" /\ at \in Groups
      /\ Toggled(before, at, now) /\ now.hideall = before.hideall
  BY DEF LoopInv, InGroupOnly, InAllToggle, InCycle, AllToggleStep
<1> DEFINE t == Turn(now, at)
<1>3. before.hideall \in BOOLEAN
  BY <1>1 DEF State
<1>4. Toggled(before, at + 1, t) /\ t.hideall = before.hideall
  BY <1>1, <1>2, <1>3, ToggleHides, ToggleShows
<1>5. now' = IF at # LastGroup THEN t ELSE Flip(t)
  BY DEF AllToggleStep, Turn, Flip
<1>6. at' = (IF at = LastGroup THEN at ELSE at + 1) /\ done' = (at = LastGroup)
  BY DEF AllToggleStep, NextGroup
<1>7. at # LastGroup => at + 1 \in Groups
  BY <1>2, ClientsAssumption DEF LastGroup, Groups
<1> HIDE DEF t
<1>8. CASE at = LastGroup
  <2>1. Like(GroupAllToggle(before), now')
    BY <1>1, <1>4, <1>5, <1>8, ToggleEnd
  <2> QED
    BY <1>2, <1>6, <1>8, <2>1 DEF LoopInv, InAllToggle
<1>9. CASE at # LastGroup
  BY <1>2, <1>4, <1>5, <1>6, <1>7, <1>9 DEF LoopInv, InAllToggle
<1> QED
  BY <1>8, <1>9

\* One turn of client_cycle.
LEMMA CycleStepTurns ==
  ASSUME LoopInv, ~done, CycleStep, UNCHANGED <<before, loop, arg>>
  PROVE  LoopInv'
<1> DEFINE dir == arg[1]
           ingroup == arg[2]
           newcc == Step(before.clientq, at, dir)
           old == OldClient(before, dir)
           again == \/ before.flags[newcc] \cap {"HIDDEN", "IGNORE"} # {}
                    \/ ingroup /\ before.group[newcc] # before.group[old]
<1>1. before \in State /\ Listed(before)
  BY StartsCoherent DEF LoopInv
<1>2. /\ loop = "client_cycle" /\ arg \in {1, -1} \X BOOLEAN
      /\ before.clientq # <<>> /\ now = before
      /\ Passed(before, dir, ingroup, at)
  BY DEF LoopInv, InGroupOnly, InAllToggle, InCycle, CycleStep
<1>3. dir \in {1, -1} /\ ingroup \in BOOLEAN
  BY <1>2
<1>4. /\ at' = newcc /\ done' = (newcc = old \/ ~again)
      /\ now' = IF again THEN now ELSE PtrWarp([now EXCEPT !.cycling = TRUE], newcc)
  BY DEF CycleStep
<1>5. again <=> ~Eligible(before, dir, ingroup, newcc)
  BY <1>3 DEF Eligible
<1>6. IF Eligible(before, dir, ingroup, newcc)
        THEN Cycle(before, dir, ingroup)
               = PtrWarp([before EXCEPT !.cycling = TRUE], newcc)
      ELSE IF newcc = old THEN Cycle(before, dir, ingroup) = before
      ELSE Passed(before, dir, ingroup, newcc)
  BY <1>1, <1>2, <1>3, CycleTurns
<1>7. done' \in BOOLEAN
  BY <1>4
<1> HIDE DEF again, newcc, old
<1>8. CASE ~again
  <2>1. done' = TRUE /\ now' = Cycle(before, dir, ingroup)
    BY <1>2, <1>4, <1>5, <1>6, <1>8
  <2> QED
    BY <1>2, <2>1 DEF LoopInv, InCycle
<1>9. CASE again /\ newcc = old
  <2>1. done' = TRUE /\ now' = Cycle(before, dir, ingroup)
    BY <1>2, <1>4, <1>5, <1>6, <1>9
  <2> QED
    BY <1>2, <2>1 DEF LoopInv, InCycle
<1>10. CASE again /\ newcc # old
  <2>1. done' = FALSE /\ now' = before /\ Passed(before, dir, ingroup, at')
    BY <1>2, <1>4, <1>5, <1>6, <1>10
  <2> QED
    BY <1>2, <2>1 DEF LoopInv, InCycle
<1> QED
  BY <1>8, <1>9, <1>10

\* Every turn keeps the invariant.
LEMMA LoopNextInv == LoopInv /\ [LoopNext]_lvars => LoopInv'
<1> SUFFICES ASSUME LoopInv, [LoopNext]_lvars PROVE LoopInv'
  OBVIOUS
<1>1. CASE LoopNext
  BY <1>1, GroupOnlyTurns, AllToggleTurns, CycleStepTurns DEF LoopNext
<1>2. CASE UNCHANGED lvars
  BY <1>2 DEF lvars, LoopInv, InGroupOnly, InAllToggle, InCycle
<1> QED
  BY <1>1, <1>2

\* A loop that ends has left what OneStep says.
LEMMA EndsAsOneStep ==
  ASSUME LoopInv, LoopNext, LoopInv'
  PROVE  [Atomic!Next]_(Atomic!ovars)
<1> DEFINE screen == IF done THEN now ELSE before
<1>1. ~done /\ before' = before /\ loop' = loop /\ arg' = arg
  BY DEF LoopNext
<1>2. done \in BOOLEAN /\ done' \in BOOLEAN
  BY DEF LoopInv
<1>3. CASE ~done'
  <2>1. (IF done THEN now ELSE before)' = (IF done THEN now ELSE before)
    BY <1>1, <1>3
  <2>2. done' = done
    BY <1>1, <1>2, <1>3
  <2> QED
    BY <1>1, <2>1, <2>2 DEF Atomic!ovars
<1>4. CASE done'
  <2>1. (IF done THEN now ELSE before) = before /\ (IF done THEN now ELSE before)' = now'
    BY <1>1, <1>4
  <2>2. CASE loop = "group_only"
    <3>1. Like(GroupOnly(before, arg), now')
      BY <1>1, <1>4, <2>2 DEF LoopInv, InGroupOnly, InAllToggle, InCycle
    <3>2. Atomic!SameScreen(now', GroupOnly(before, arg))
      BY <3>1, LikeSame
    <3>3. Atomic!SameScreen(now', Atomic!GroupOnly(before, arg))
      BY <3>2, AtomicGroupOnly
    <3> QED
      BY <1>1, <1>2, <1>4, <2>1, <2>2, <3>3 DEF Atomic!Next, Atomic!Result
  <2>3. CASE loop = "group_alltoggle"
    <3>1. Like(GroupAllToggle(before), now')
      BY <1>1, <1>4, <2>3 DEF LoopInv, InGroupOnly, InAllToggle, InCycle
    <3>2. Atomic!SameScreen(now', GroupAllToggle(before))
      BY <3>1, LikeSame
    <3>3. Atomic!SameScreen(now', Atomic!GroupAllToggle(before))
      BY <3>2, AtomicGroupAllToggle
    <3> QED
      BY <1>1, <1>2, <1>4, <2>1, <2>3, <3>3 DEF Atomic!Next, Atomic!Result
  <2>4. CASE loop = "client_cycle"
    <3>1. now' = Cycle(before, arg[1], arg[2])
      BY <1>1, <1>4, <2>4 DEF LoopInv, InGroupOnly, InAllToggle, InCycle
    <3>2. Atomic!SameScreen(now', Atomic!Cycle(before, arg[1], arg[2]))
      BY <3>1, AtomicCycle DEF Atomic!SameScreen
    <3> QED
      BY <1>1, <1>2, <1>4, <2>1, <2>4, <3>2 DEF Atomic!Next, Atomic!Result
  <2> QED
    BY <2>2, <2>3, <2>4 DEF LoopInv, InGroupOnly, InAllToggle, InCycle
<1> QED
  BY <1>3, <1>4

\* group_only, group_alltoggle and client_cycle, which stop at every group or
\* client on their way, leave when they end what the closed forms of Groups and
\* Clients say, and until then nothing that a reader of the result could see.
THEOREM LoopsTakeOneStep == LoopSpec => TakesOneStep
<1>1. LoopInit => LoopInv
  BY LoopInitInv
<1>2. LoopInv /\ [LoopNext]_lvars => LoopInv'
  BY LoopNextInv
<1>3. LoopInit => Atomic!Init
  <2> SUFFICES ASSUME LoopInit PROVE Atomic!Init
    OBVIOUS
  <2>1. (IF done THEN now ELSE before) = before /\ before \in State /\ done = FALSE
    BY StartsCoherent DEF LoopInit
  <2> QED
    BY <2>1, AtomicClients DEF Atomic!Init, LoopInit
<1>4. LoopInv /\ LoopInv' /\ [LoopNext]_lvars => [Atomic!Next]_(Atomic!ovars)
  <2> SUFFICES ASSUME LoopInv, LoopInv', [LoopNext]_lvars
               PROVE  [Atomic!Next]_(Atomic!ovars)
    OBVIOUS
  <2>1. CASE LoopNext
    BY <2>1, EndsAsOneStep
  <2>2. CASE UNCHANGED lvars
    BY <2>2 DEF lvars, Atomic!ovars
  <2> QED
    BY <2>1, <2>2
<1> QED
  BY <1>1, <1>2, <1>3, <1>4, PTL DEF LoopSpec, TakesOneStep, Atomic!Safe

\* The screens that module Cwm comes to are ones the loops may begin with.
THEOREM ScreensAreCoherent == Spec => []Coherent(S)
<1>1. TypeOK /\ ActiveIsCurrent /\ ListsAgree => Coherent(S)
  BY DEF TypeOK, ActiveIsCurrent, ListsAgree, Coherent, S
<1> QED
  BY <1>1, TypeCorrect, ActiveIsCurrentHolds, ListsAgreeHolds, PTL

=============================================================================
