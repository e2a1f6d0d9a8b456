--------------------------- MODULE Desktop_proofs ---------------------------
(***************************************************************************)
(* Cwm implements Desktop, for any windows, groups, configuration and      *)
(* bounds, whether or not commands race with unread events, as long as no  *)
(* application uses _NET_WM_STATE_HIDDEN and no key is pressed that makes  *)
(* a phantom a member of a group.                                          *)
(*                                                                         *)
(* First what each operator of Clients and Groups does to what a user      *)
(* sees, then that each handler is a step of Desktop or none.              *)
(*                                                                         *)
(* Then what a step of cwm never does: unmap a sticky window, or leave two *)
(* groups on display after a switch of desktop.                            *)
(***************************************************************************)
EXTENDS Cwm_proofs, CwmDesktop

\* What a user sees of a state.
DeskOf(s)   == [w \in Windows |-> s.group[w]]
StickyOf(s) == {w \in Windows : "STICKY" \in s.flags[w]}
ShownOf(s)  == {w \in ToSet(s.clientq) : "HIDDEN" \notin s.flags[w]}
OnOf(s, g)  == {w \in Windows : DeskOf(s)[w] = g}
LooseOf(s)  == {w \in Windows : DeskOf(s)[w] # NoGroup} \ StickyOf(s)

SameSight(s, t) ==
  /\ DeskOf(t) = DeskOf(s) /\ StickyOf(t) = StickyOf(s)
  /\ ShownOf(t) = ShownOf(s)
  /\ t.group_current = s.group_current /\ t.curcc = s.curcc

\* The focus stays where it is unless its window disappears.
KeepsFocus(s, t) ==
  t.curcc = IF s.curcc \in ShownOf(t) THEN s.curcc ELSE NoClient

\* A window is sent to another group, and is hidden with it if no window of the
\* group is on display.
Joins(s, t, w, g) ==
  /\ DeskOf(s)[w] \notin {NoGroup, g}
  /\ DeskOf(t) = [DeskOf(s) EXCEPT ![w] = g] /\ StickyOf(t) = StickyOf(s)
  /\ ShownOf(t) = IF \/ w \notin LooseOf(s)
                     \/ OnOf(s, g) \cap LooseOf(s) \cap ShownOf(s) # {}
                    THEN ShownOf(s) ELSE ShownOf(s) \ {w}
  /\ t.group_current = s.group_current /\ KeepsFocus(s, t)

\* A window is opened in a group.
Opened(s, t, w, g) ==
  /\ DeskOf(s)[w] = NoGroup
  /\ DeskOf(t) = [DeskOf(s) EXCEPT ![w] = g]
  /\ StickyOf(t) \in {StickyOf(s), StickyOf(s) \cup {w}}
  /\ ShownOf(t) \in {ShownOf(s), ShownOf(s) \cup {w}}
  /\ t.group_current = s.group_current /\ t.curcc = s.curcc

\* One window is shown.
Showed(s, t, w) ==
  /\ DeskOf(t) = DeskOf(s) /\ StickyOf(t) = StickyOf(s)
  /\ w \in LooseOf(s) /\ ShownOf(t) = ShownOf(s) \cup {w}
  /\ t.group_current = s.group_current /\ t.curcc = s.curcc

Tidy == Fakes = {} /\ "state_hidden" \notin Habits

\* What the invariant says of what a user sees.
LEMMA Sight ==
  ASSUME Tidy, NEW s, NEW M, Fine(s, M, M)
  PROVE  /\ s \in State /\ Good(s, M, M) /\ Clients = Windows
         /\ M \subseteq Windows /\ ToSet(s.clientq) = M
         /\ StickyOf(s) \subseteq M /\ ShownOf(s) \subseteq M
         /\ LooseOf(s) = M \ StickyOf(s)
         /\ \A w \in Windows : w \in M <=> DeskOf(s)[w] # NoGroup
         /\ \A w \in Windows : DeskOf(s)[w] = s.group[w]
         /\ \A w \in M : DeskOf(s)[w] \in Groups
         /\ \A g \in Groups : s.members[g] = OnOf(s, g) /\ OnOf(s, g) \subseteq M
         /\ s.curcc # NoClient => s.curcc \in ShownOf(s)
         /\ NoClient \notin Windows /\ NoGroup \notin Groups
         /\ s.group_current \in Groups /\ FirstGroup \in Groups
<1>1. s \in State /\ Good(s, M, M) /\ M \subseteq Windows
  BY KnownType DEF Fine
<1>2. Clients = Windows /\ NoClient \notin Windows /\ NoGroup \notin Groups
  BY ClientsAssumption DEF Clients, Tidy, NoGroup, Groups
<1>3. ToSet(s.clientq) = M
  BY <1>1 DEF Good, Managed
<1>4. \A w \in Windows : DeskOf(s)[w] = s.group[w]
  BY DEF DeskOf
<1>5. \A w \in Windows : IF w \in M THEN DeskOf(s)[w] \in Groups
                         ELSE DeskOf(s)[w] = NoGroup /\ s.flags[w] = {}
  BY <1>1, <1>4 DEF Good
<1>6. StickyOf(s) \subseteq M /\ ShownOf(s) \subseteq M
  BY <1>3, <1>5 DEF StickyOf, ShownOf
<1>7. LooseOf(s) = M \ StickyOf(s)
  BY <1>1, <1>2, <1>5 DEF LooseOf
<1>8. \A g \in Groups : s.members[g] = OnOf(s, g) /\ OnOf(s, g) \subseteq M
  <2>1. \A g \in Groups : s.members[g] \subseteq Windows
    BY <1>1, <1>2 DEF State
  <2>2. \A g \in Groups, w \in Windows : w \in s.members[g] <=> s.group[w] = g
    BY <1>1, <1>2 DEF Good
  <2> QED
    BY <1>2, <1>4, <1>5, <2>1, <2>2 DEF OnOf
<1>9. s.curcc # NoClient => s.curcc \in ShownOf(s)
  BY <1>1, <1>3 DEF Tidy, Fine, Display, Good, Has, ShownOf
<1>10. s.group_current \in Groups /\ FirstGroup \in Groups
  BY <1>1, GroupsType
<1> QED
  BY <1>1, <1>2, <1>3, <1>4, <1>5, <1>6, <1>7, <1>8, <1>9, <1>10

----------------------------------------------------------------------------
(* What the operators do to it.                                            *)

\* A state with the same clients, groups and flags looks the same.
LEMMA SameSeen ==
  ASSUME NEW s, NEW t, ToSet(t.clientq) = ToSet(s.clientq), t.group = s.group,
         \A w \in Windows : s.flags[w] \cap {"STICKY", "HIDDEN"}
                              = t.flags[w] \cap {"STICKY", "HIDDEN"},
         ToSet(s.clientq) \subseteq Windows,
         t.group_current = s.group_current, t.curcc = s.curcc
  PROVE  SameSight(s, t)
<1>1. \A w \in Windows : /\ "STICKY" \in s.flags[w] <=> "STICKY" \in t.flags[w]
                         /\ "HIDDEN" \in s.flags[w] <=> "HIDDEN" \in t.flags[w]
  OBVIOUS
<1> QED
  BY <1>1 DEF SameSight, DeskOf, StickyOf, ShownOf

\* client_hide hides what is not sticky, and takes the focus from it.
LEMMA HideAllSeen ==
  ASSUME Tidy, NEW s, NEW M, Fine(s, M, M), NEW W \in SUBSET M
  PROVE  LET t == HideAll(s, W)
         IN /\ DeskOf(t) = DeskOf(s) /\ StickyOf(t) = StickyOf(s)
            /\ ShownOf(t) = ShownOf(s) \ (W \ StickyOf(s))
            /\ t.group_current = s.group_current
            /\ KeepsFocus(s, t)
<1> DEFINE t == HideAll(s, W)
           L == {c \in W : ~Has(s, c, "STICKY")}
<1>1. /\ s \in State /\ Clients = Windows /\ M \subseteq Windows
      /\ ToSet(s.clientq) = M /\ ShownOf(s) \subseteq M
      /\ s.curcc # NoClient => s.curcc \in ShownOf(s)
      /\ NoClient \notin Windows
  BY Sight
<1>2. /\ t.clientq = s.clientq /\ t.group = s.group
      /\ t.group_current = s.group_current
      /\ t.flags = Reflag(s.flags, L, {"ACTIVE"}, {"HIDDEN"})
      /\ t.curcc = IF s.curcc \in L THEN NoClient ELSE s.curcc
  BY <1>1, HideAllFields DEF SameDesks
<1>3. L = W \ StickyOf(s) /\ L \subseteq Windows
  BY <1>1 DEF StickyOf, Has
<1> HIDE DEF t, L
<1>4. \A w \in Windows :
        /\ "STICKY" \in t.flags[w] <=> "STICKY" \in s.flags[w]
        /\ "HIDDEN" \in t.flags[w] <=> "HIDDEN" \in s.flags[w] \/ w \in L
  BY <1>1, <1>2 DEF Reflag
<1>5. DeskOf(t) = DeskOf(s) /\ StickyOf(t) = StickyOf(s)
  BY <1>2, <1>4 DEF DeskOf, StickyOf
<1>6. ShownOf(t) = ShownOf(s) \ L
  BY <1>1, <1>2, <1>4 DEF ShownOf
<1>7. KeepsFocus(s, t)
  BY <1>1, <1>2, <1>3, <1>6 DEF KeepsFocus
<1> QED
  BY <1>2, <1>3, <1>5, <1>6, <1>7 DEF t

\* client_unhide shows what is not sticky.
LEMMA UnhideAllSeen ==
  ASSUME Tidy, NEW s, NEW M, Fine(s, M, M), NEW W \in SUBSET M
  PROVE  LET t == UnhideAll(s, W)
         IN /\ DeskOf(t) = DeskOf(s) /\ StickyOf(t) = StickyOf(s)
            /\ ShownOf(t) = ShownOf(s) \cup (W \ StickyOf(s))
            /\ t.group_current = s.group_current /\ t.curcc = s.curcc
<1> DEFINE t == UnhideAll(s, W)
           L == {c \in W : ~Has(s, c, "STICKY")}
<1>1. /\ s \in State /\ Clients = Windows /\ M \subseteq Windows
      /\ ToSet(s.clientq) = M
  BY Sight
<1>2. /\ t.clientq = s.clientq /\ t.group = s.group
      /\ t.group_current = s.group_current /\ t.curcc = s.curcc
      /\ t.flags = Reflag(s.flags, L, {"HIDDEN"}, {})
  BY <1>1, UnhideAllFields DEF SameDesks
<1>3. L = W \ StickyOf(s) /\ L \subseteq M
  BY <1>1 DEF StickyOf, Has
<1> HIDE DEF t, L
<1>4. \A w \in Windows :
        /\ "STICKY" \in t.flags[w] <=> "STICKY" \in s.flags[w]
        /\ "HIDDEN" \in t.flags[w] <=> "HIDDEN" \in s.flags[w] /\ w \notin L
  BY <1>1, <1>2 DEF Reflag
<1>5. DeskOf(t) = DeskOf(s) /\ StickyOf(t) = StickyOf(s)
  BY <1>2, <1>4 DEF DeskOf, StickyOf
<1>6. ShownOf(t) = ShownOf(s) \cup L
  BY <1>1, <1>2, <1>3, <1>4 DEF ShownOf
<1> QED
  BY <1>2, <1>3, <1>5, <1>6 DEF t

\* client_ptrwarp shows the window if it is hidden and not sticky.
LEMMA PtrWarpSeen ==
  ASSUME Tidy, NEW s, NEW M, Fine(s, M, M), NEW w \in M
  PROVE  LET t == PtrWarp(s, w)
         IN /\ DeskOf(t) = DeskOf(s) /\ StickyOf(t) = StickyOf(s)
            /\ ShownOf(t) = ShownOf(s) \cup ({w} \ StickyOf(s))
            /\ t.group_current = s.group_current /\ t.curcc = s.curcc
<1>1. CASE Has(s, w, "HIDDEN")
  BY <1>1, UnhideAllSeen DEF PtrWarp, Unhide
<1>2. CASE ~Has(s, w, "HIDDEN")
  <2>1. w \in ShownOf(s)
    BY <1>2, Sight DEF ShownOf, Has
  <2> QED
    BY <1>2, <2>1 DEF PtrWarp
<1> QED
  BY <1>1, <1>2

\* group_assign changes the group of the windows it moves.
LEMMA AssignAllSeen ==
  ASSUME Tidy, NEW s, NEW M, Fine(s, M, M), NEW W \in SUBSET M, NEW g \in Groups
  PROVE  LET t == AssignAll(s, W, g)
         IN /\ DeskOf(t) = [w \in Windows |-> IF w \in W THEN g ELSE DeskOf(s)[w]]
            /\ StickyOf(t) = StickyOf(s) /\ ShownOf(t) = ShownOf(s)
            /\ t.group_current = s.group_current /\ t.curcc = s.curcc
<1> DEFINE t == AssignAll(s, W, g)
<1>1. s \in State /\ Clients = Windows
  BY Sight
<1>2. /\ t.clientq = s.clientq /\ t.flags = s.flags
      /\ t.group_current = s.group_current /\ t.curcc = s.curcc
      /\ t.group = [c \in Clients |-> IF c \in W THEN g ELSE s.group[c]]
  BY <1>1, AssignAllFields
<1> HIDE DEF t
<1>3. DeskOf(t) = [w \in Windows |-> IF w \in W THEN g ELSE DeskOf(s)[w]]
  BY <1>1, <1>2 DEF DeskOf
<1> QED
  BY <1>2, <1>3 DEF StickyOf, ShownOf, t

\* group_show shows the group and gathers the sticky windows in it.
LEMMA GroupShowSeen ==
  ASSUME Tidy, NEW s, NEW M, Fine(s, M, M), NEW g \in Groups
  PROVE  LET t == GroupShow(s, g)
         IN /\ DeskOf(t) = [w \in Windows |-> IF w \in StickyOf(s) THEN g
                                              ELSE DeskOf(s)[w]]
            /\ StickyOf(t) = StickyOf(s)
            /\ ShownOf(t) = ShownOf(s) \cup (OnOf(s, g) \cap LooseOf(s))
            /\ t.group_current = s.group_current /\ t.curcc = s.curcc
<1> DEFINE u == UnhideAll(s, s.members[g])
<1>1. /\ s.members[g] = OnOf(s, g) /\ OnOf(s, g) \subseteq M
      /\ LooseOf(s) = M \ StickyOf(s)
  BY Sight
<1>2. Fine(u, M, M)
  BY <1>1, UnhideAllFine
<1>3. /\ DeskOf(u) = DeskOf(s) /\ StickyOf(u) = StickyOf(s)
      /\ ShownOf(u) = ShownOf(s) \cup (OnOf(s, g) \ StickyOf(s))
      /\ u.group_current = s.group_current /\ u.curcc = s.curcc
  BY <1>1, UnhideAllSeen
<1> HIDE DEF u
<1>4. StickyClients(u) = StickyOf(u) /\ StickyOf(u) \subseteq M
  BY <1>2, Sight DEF StickyClients, StickyOf, Managed, Has
<1>5. GroupShow(s, g) = AssignAll(u, StickyOf(u), g)
  BY <1>4 DEF GroupShow, u
<1>6. LET t == AssignAll(u, StickyOf(u), g)
      IN /\ DeskOf(t) = [w \in Windows |-> IF w \in StickyOf(u) THEN g
                                           ELSE DeskOf(u)[w]]
         /\ StickyOf(t) = StickyOf(u) /\ ShownOf(t) = ShownOf(u)
         /\ t.group_current = u.group_current /\ t.curcc = u.curcc
  BY <1>2, <1>4, AssignAllSeen
<1>7. OnOf(s, g) \cap LooseOf(s) = OnOf(s, g) \ StickyOf(s)
  BY <1>1
<1> QED
  BY <1>3, <1>5, <1>6, <1>7

\* group_hide hides the group.
LEMMA GroupHideSeen ==
  ASSUME Tidy, NEW s, NEW M, Fine(s, M, M), NEW g \in Groups
  PROVE  LET t == GroupHide(s, g)
         IN /\ DeskOf(t) = DeskOf(s) /\ StickyOf(t) = StickyOf(s)
            /\ ShownOf(t) = ShownOf(s) \ (OnOf(s, g) \cap LooseOf(s))
            /\ t.group_current = s.group_current
            /\ KeepsFocus(s, t)
<1>1. /\ s.members[g] = OnOf(s, g) /\ OnOf(s, g) \subseteq M
      /\ LooseOf(s) = M \ StickyOf(s)
  BY Sight
<1>2. OnOf(s, g) \cap LooseOf(s) = OnOf(s, g) \ StickyOf(s)
  BY <1>1
<1> QED
  BY <1>1, <1>2, HideAllSeen DEF GroupHide

\* group_only leaves one group and the sticky windows on display.
LEMMA GroupOnlySeen ==
  ASSUME Tidy, NEW s, NEW M, Fine(s, M, M), NEW g \in Groups
  PROVE  LET t == GroupOnly(s, g)
         IN /\ DeskOf(t) = [w \in Windows |-> IF w \in StickyOf(s) THEN g
                                              ELSE DeskOf(s)[w]]
            /\ StickyOf(t) = StickyOf(s)
            /\ ShownOf(t) = (ShownOf(s) \cap StickyOf(s))
                              \cup (OnOf(s, g) \cap LooseOf(s))
            /\ t.group_current = g
            /\ KeepsFocus(s, t)
<1> DEFINE W == UNION {s.members[h] : h \in Groups \ {g}}
           u == HideAll(s, W)
           v == GroupSetActive(u, g)
           t == GroupShow(v, g)
<1>1. /\ s \in State /\ M \subseteq Windows /\ LooseOf(s) = M \ StickyOf(s)
      /\ ShownOf(s) \subseteq M
      /\ \A w \in M : DeskOf(s)[w] \in Groups
      /\ \A h \in Groups : s.members[h] = OnOf(s, h) /\ OnOf(s, h) \subseteq M
      /\ s.curcc # NoClient => s.curcc \in ShownOf(s)
  BY Sight
<1>2. W = M \ OnOf(s, g)
  BY <1>1 DEF OnOf
<1> HIDE DEF W
<1>3. Fine(u, M, M)
  BY <1>2, HideAllFine
<1>4. /\ DeskOf(u) = DeskOf(s) /\ StickyOf(u) = StickyOf(s)
      /\ ShownOf(u) = ShownOf(s) \ (W \ StickyOf(s))
      /\ KeepsFocus(s, u)
  BY <1>2, HideAllSeen
<1>5. GroupOnly(s, g) = t
  BY DEF GroupOnly, W
<1> HIDE DEF u
<1>6. Fine(v, M, M)
  BY <1>3, GroupSetActiveFine
<1>7. /\ DeskOf(v) = DeskOf(u) /\ StickyOf(v) = StickyOf(u)
      /\ ShownOf(v) = ShownOf(u) /\ v.curcc = u.curcc /\ v.group_current = g
  <2>1. u \in State
    BY <1>3, Sight
  <2> QED
    BY <2>1 DEF GroupSetActive, State, DeskOf, StickyOf, ShownOf
<1> HIDE DEF v
<1>8. /\ DeskOf(t) = [w \in Windows |-> IF w \in StickyOf(v) THEN g
                                        ELSE DeskOf(v)[w]]
      /\ StickyOf(t) = StickyOf(v)
      /\ ShownOf(t) = ShownOf(v) \cup (OnOf(v, g) \cap LooseOf(v))
      /\ t.group_current = v.group_current /\ t.curcc = v.curcc
  BY <1>6, GroupShowSeen
<1>9. OnOf(v, g) = OnOf(s, g) /\ LooseOf(v) = LooseOf(s)
  BY <1>4, <1>7 DEF OnOf, LooseOf
<1> HIDE DEF t
<1>10. ShownOf(t) = (ShownOf(s) \cap StickyOf(s)) \cup (OnOf(s, g) \cap LooseOf(s))
  BY <1>1, <1>2, <1>4, <1>7, <1>8, <1>9
<1>11. KeepsFocus(s, t)
  <2>1. NoClient \notin ShownOf(t) /\ NoClient \notin ShownOf(u)
    BY <1>1, <1>4, <1>10, Sight
  <2>2. s.curcc # NoClient => (s.curcc \in ShownOf(t) <=> s.curcc \in ShownOf(u))
    BY <1>1, <1>2, <1>4, <1>10
  <2> QED
    BY <1>4, <1>7, <1>8, <2>1, <2>2 DEF KeepsFocus
<1> QED
  BY <1>4, <1>5, <1>7, <1>8, <1>10, <1>11

\* group_movetogroup: a window goes out of sight with a group of which no
\* window is on display.
LEMMA MoveToGroupSeen ==
  ASSUME Tidy, NEW s, NEW M, Fine(s, M, M), NEW w \in M, NEW g \in Groups,
         DeskOf(s)[w] # g
  PROVE  Joins(s, MoveToGroup(s, w, g), w, g)
<1> DEFINE u == IF HoldsOnlyHidden(s, g) THEN Hide(s, w) ELSE s
           t == AssignAll(u, {w}, g)
<1>1. /\ s \in State /\ M \subseteq Windows /\ LooseOf(s) = M \ StickyOf(s)
      /\ ToSet(s.clientq) = M /\ \A v \in Windows : DeskOf(s)[v] = s.group[v]
      /\ s.members[g] = OnOf(s, g) /\ OnOf(s, g) \subseteq M
      /\ s.curcc # NoClient => s.curcc \in ShownOf(s)
      /\ ShownOf(s) \subseteq M /\ NoClient \notin Windows
  BY Sight
<1>2. HoldsOnlyHidden(s, g) <=> OnOf(s, g) \cap LooseOf(s) \cap ShownOf(s) = {}
  BY <1>1 DEF HoldsOnlyHidden, Has, StickyOf, ShownOf
<1>3. /\ DeskOf(Hide(s, w)) = DeskOf(s) /\ StickyOf(Hide(s, w)) = StickyOf(s)
      /\ ShownOf(Hide(s, w)) = ShownOf(s) \ ({w} \ StickyOf(s))
      /\ Hide(s, w).group_current = s.group_current
      /\ KeepsFocus(s, Hide(s, w)) /\ Fine(Hide(s, w), M, M)
  BY HideAllSeen, HideAllFine DEF Hide
<1>4. KeepsFocus(s, s)
  BY <1>1 DEF KeepsFocus
<1>5. /\ DeskOf(u) = DeskOf(s) /\ StickyOf(u) = StickyOf(s)
      /\ ShownOf(u) = IF \/ w \notin LooseOf(s)
                         \/ OnOf(s, g) \cap LooseOf(s) \cap ShownOf(s) # {}
                        THEN ShownOf(s) ELSE ShownOf(s) \ {w}
      /\ u.group_current = s.group_current /\ KeepsFocus(s, u) /\ Fine(u, M, M)
  <2>1. CASE HoldsOnlyHidden(s, g)
    <3>1. u = Hide(s, w)
      BY <2>1
    <3> HIDE DEF u
    <3>2. OnOf(s, g) \cap LooseOf(s) \cap ShownOf(s) = {}
      BY <1>2, <2>1
    <3>3. ShownOf(u) = IF w \notin LooseOf(s) THEN ShownOf(s) ELSE ShownOf(s) \ {w}
      BY <1>1, <1>3, <3>1
    <3> QED
      BY <1>3, <3>1, <3>2, <3>3
  <2>2. CASE ~HoldsOnlyHidden(s, g)
    <3>1. u = s
      BY <2>2
    <3> HIDE DEF u
    <3>2. OnOf(s, g) \cap LooseOf(s) \cap ShownOf(s) # {}
      BY <1>2, <2>2
    <3> QED
      BY <1>4, <3>1, <3>2
  <2> QED
    BY <2>1, <2>2
<1>6. MoveToGroup(s, w, g) = t
  BY <1>1 DEF MoveToGroup, Assign
<1> HIDE DEF u
<1>7. /\ DeskOf(t) = [v \in Windows |-> IF v \in {w} THEN g ELSE DeskOf(u)[v]]
      /\ StickyOf(t) = StickyOf(u) /\ ShownOf(t) = ShownOf(u)
      /\ t.group_current = u.group_current /\ t.curcc = u.curcc
  <2>1. Fine(u, M, M) /\ {w} \in SUBSET M
    BY <1>5
  <2> QED
    BY <2>1, AssignAllSeen
<1> HIDE DEF t
<1>8. DeskOf(t) = [DeskOf(s) EXCEPT ![w] = g]
  BY <1>1, <1>5, <1>7 DEF DeskOf
<1>9. KeepsFocus(s, t)
  BY <1>5, <1>7 DEF KeepsFocus
<1>10. DeskOf(s)[w] \notin {NoGroup, g}
  BY Sight
<1> QED
  BY <1>5, <1>6, <1>7, <1>8, <1>9, <1>10 DEF Joins

\* An assignment to the flags of one client.
LEMMA FlagSeen ==
  ASSUME Tidy, NEW s, NEW M, Fine(s, M, M), NEW w \in M, NEW F \in SUBSET Flags,
         "HIDDEN" \in F <=> "HIDDEN" \in s.flags[w],
         NEW t, t = [s EXCEPT !.flags[w] = F]
  PROVE  /\ DeskOf(t) = DeskOf(s) /\ ShownOf(t) = ShownOf(s)
         /\ "STICKY" \in F => StickyOf(t) = StickyOf(s) \cup {w}
         /\ "STICKY" \notin F => StickyOf(t) = StickyOf(s) \ {w}
         /\ t.group_current = s.group_current /\ t.curcc = s.curcc
<1>1. /\ s \in State /\ Clients = Windows /\ M \subseteq Windows
      /\ ToSet(s.clientq) = M
  BY Sight
<1>2. /\ t.clientq = s.clientq /\ t.group = s.group
      /\ t.group_current = s.group_current /\ t.curcc = s.curcc
      /\ t.flags = [s.flags EXCEPT ![w] = F]
  BY <1>1 DEF State
<1>3. \A v \in Windows : t.flags[v] = IF v = w THEN F ELSE s.flags[v]
  BY <1>1, <1>2 DEF State
<1>4. DeskOf(t) = DeskOf(s) /\ ShownOf(t) = ShownOf(s)
  BY <1>1, <1>2, <1>3 DEF DeskOf, ShownOf
<1>5. /\ "STICKY" \in F => StickyOf(t) = StickyOf(s) \cup {w}
      /\ "STICKY" \notin F => StickyOf(t) = StickyOf(s) \ {w}
  BY <1>1, <1>3 DEF StickyOf
<1> QED
  BY <1>2, <1>4, <1>5

\* ... as a step or none.
LEMMA WarpSeen ==
  ASSUME Tidy, NEW s, NEW M, Fine(s, M, M), NEW w \in M
  PROVE  SameSight(s, PtrWarp(s, w)) \/ Showed(s, PtrWarp(s, w), w)
<1> DEFINE t == PtrWarp(s, w)
<1>1. /\ DeskOf(t) = DeskOf(s) /\ StickyOf(t) = StickyOf(s)
      /\ ShownOf(t) = ShownOf(s) \cup ({w} \ StickyOf(s))
      /\ t.group_current = s.group_current /\ t.curcc = s.curcc
  BY PtrWarpSeen
<1>2. LooseOf(s) = M \ StickyOf(s)
  BY Sight
<1> HIDE DEF t
<1>3. CASE w \in StickyOf(s)
  BY <1>1, <1>3 DEF SameSight, t
<1>4. CASE w \notin StickyOf(s)
  BY <1>1, <1>2, <1>4 DEF Showed, t
<1> QED
  BY <1>3, <1>4

\* client_toggle_sticky: a window that is sticky no more is in the current
\* group.
LEMMA ToggleStickySeen ==
  ASSUME Tidy, NEW s, NEW M, Fine(s, M, M), NEW w \in M
  PROVE  LET t == ToggleSticky(s, w)
         IN /\ IF w \in StickyOf(s)
                 THEN /\ StickyOf(t) = StickyOf(s) \ {w}
                      /\ DeskOf(t) = [DeskOf(s) EXCEPT ![w] = s.group_current]
                 ELSE /\ StickyOf(t) = StickyOf(s) \cup {w}
                      /\ DeskOf(t) = DeskOf(s)
            /\ ShownOf(t) = ShownOf(s)
            /\ t.group_current = s.group_current /\ t.curcc = s.curcc
<1> DEFINE F == s.flags[w] \ {"STICKY"}
           G == s.flags[w] \cup {"STICKY"}
           u == [s EXCEPT !.flags[w] = F]
           v == [s EXCEPT !.flags[w] = G]
<1>1. /\ s \in State /\ M \subseteq Windows /\ Clients = Windows
      /\ s.group_current \in Groups
  BY Sight
<1>2. s.flags[w] \in SUBSET Flags
  BY <1>1 DEF State
<1>3. /\ F \in SUBSET Flags /\ G \in SUBSET Flags
      /\ "HIDDEN" \in F <=> "HIDDEN" \in s.flags[w]
      /\ "HIDDEN" \in G <=> "HIDDEN" \in s.flags[w]
      /\ "ACTIVE" \in F <=> "ACTIVE" \in s.flags[w]
      /\ "STICKY" \notin F /\ "STICKY" \in G
  BY <1>2 DEF Flags
<1>4. w \in StickyOf(s) <=> Has(s, w, "STICKY")
  BY <1>1 DEF StickyOf, Has
<1>5. /\ [s EXCEPT !.flags[w] = @ \ {"STICKY"}] = u
      /\ [s EXCEPT !.flags[w] = @ \cup {"STICKY"}] = v
  BY <1>1 DEF State
<1> HIDE DEF F, G
<1>6. /\ DeskOf(u) = DeskOf(s) /\ ShownOf(u) = ShownOf(s)
      /\ StickyOf(u) = StickyOf(s) \ {w}
      /\ u.group_current = s.group_current /\ u.curcc = s.curcc
  <2>1. F \in SUBSET Flags /\ ("HIDDEN" \in F <=> "HIDDEN" \in s.flags[w])
        /\ "STICKY" \notin F
    BY <1>3
  <2>2. u = [s EXCEPT !.flags[w] = F]
    OBVIOUS
  <2> HIDE DEF u
  <2> QED
    BY <2>1, <2>2, FlagSeen
<1>7. /\ DeskOf(v) = DeskOf(s) /\ ShownOf(v) = ShownOf(s)
      /\ StickyOf(v) = StickyOf(s) \cup {w}
      /\ v.group_current = s.group_current /\ v.curcc = s.curcc
  <2>1. G \in SUBSET Flags /\ ("HIDDEN" \in G <=> "HIDDEN" \in s.flags[w])
        /\ "STICKY" \in G
    BY <1>3
  <2>2. v = [s EXCEPT !.flags[w] = G]
    OBVIOUS
  <2> HIDE DEF v
  <2> QED
    BY <2>1, <2>2, FlagSeen
<1>8. Fine(u, M, M)
  BY <1>3, FlagFine
<1>9. ToggleSticky(s, w) = IF w \in StickyOf(s)
                             THEN AssignAll(u, {w}, s.group_current) ELSE v
  BY <1>4, <1>5 DEF ToggleSticky, Assign
<1> HIDE DEF u, v
<1> DEFINE t == AssignAll(u, {w}, s.group_current)
<1>10. /\ DeskOf(t) = [x \in Windows |-> IF x \in {w} THEN s.group_current
                                         ELSE DeskOf(u)[x]]
       /\ StickyOf(t) = StickyOf(u) /\ ShownOf(t) = ShownOf(u)
       /\ t.group_current = u.group_current /\ t.curcc = u.curcc
  <2>1. s.group_current \in Groups /\ {w} \in SUBSET M
    BY <1>1
  <2> QED
    BY <1>8, <2>1, AssignAllSeen
<1> HIDE DEF t
<1>11. DeskOf(t) = [DeskOf(s) EXCEPT ![w] = s.group_current]
  BY <1>1, <1>6, <1>10 DEF DeskOf
<1> QED
  BY <1>6, <1>7, <1>9, <1>10, <1>11 DEF t

\* client_delete: the window disappears, and the focus if it was there.
LEMMA DeleteSeen ==
  ASSUME Tidy, NEW s, NEW M, Fine(s, M, M), NEW w \in M
  PROVE  LET t == Delete(s, w)
         IN /\ DeskOf(t) = [DeskOf(s) EXCEPT ![w] = NoGroup]
            /\ StickyOf(t) = StickyOf(s) \ {w}
            /\ ShownOf(t) = ShownOf(s) \ {w}
            /\ t.group_current = s.group_current
            /\ KeepsFocus(s, t)
<1> DEFINE t == Delete(s, w)
<1>1. /\ s \in State /\ Good(s, M, M) /\ M \subseteq Windows /\ Clients = Windows
      /\ ToSet(s.clientq) = M
      /\ s.curcc # NoClient => s.curcc \in ShownOf(s)
      /\ ShownOf(s) \subseteq M /\ NoClient \notin Windows
  BY Sight
<1>2. ToSet(t.clientq) = M \ {w}
  <2>1. Fine(t, M \ {w}, M \ {w})
    BY DeleteFine
  <2> HIDE DEF t
  <2> QED
    BY <2>1 DEF Fine, Good, Managed
<1>3. /\ t.group = [s.group EXCEPT ![w] = NoGroup]
      /\ t.flags = [s.flags EXCEPT ![w] = {}]
      /\ t.group_current = s.group_current
      /\ t.curcc = IF s.curcc = w THEN NoClient ELSE s.curcc
  BY <1>1, DeleteFields
<1> HIDE DEF t
<1>4. \A v \in Windows : t.flags[v] = IF v = w THEN {} ELSE s.flags[v]
  BY <1>1, <1>3 DEF State
<1>9. ShownOf(s) = {v \in M : "HIDDEN" \notin s.flags[v]}
  BY <1>1 DEF ShownOf
<1>10. ShownOf(t) = {v \in M \ {w} : "HIDDEN" \notin t.flags[v]}
  BY <1>2 DEF ShownOf
<1>5. DeskOf(t) = [DeskOf(s) EXCEPT ![w] = NoGroup]
  BY <1>1, <1>3 DEF DeskOf, State
<1>6. StickyOf(t) = StickyOf(s) \ {w}
  BY <1>1, <1>4 DEF StickyOf
<1>7. ShownOf(t) = ShownOf(s) \ {w}
  <2>1. \A v \in M \ {w} : t.flags[v] = s.flags[v]
    BY <1>1, <1>4
  <2> QED
    BY <1>9, <1>10, <2>1
<1>8. KeepsFocus(s, t)
  <2>1. CASE s.curcc = NoClient
    BY <1>1, <1>3, <1>7, <2>1 DEF KeepsFocus
  <2>2. CASE s.curcc # NoClient
    BY <1>1, <1>3, <1>7, <2>2 DEF KeepsFocus
  <2> QED
    BY <2>1, <2>2
<1> QED
  BY <1>3, <1>5, <1>6, <1>7, <1>8 DEF t

\* client_setactive moves the focus to a window on display, or nowhere.
LEMMA SetActiveSeen ==
  ASSUME Tidy, NEW s, NEW M, Fine(s, M, M), NEW w \in M
  PROVE  LET t == SetActive(s, w)
         IN /\ DeskOf(t) = DeskOf(s) /\ StickyOf(t) = StickyOf(s)
            /\ ShownOf(t) = ShownOf(s) /\ t.group_current = s.group_current
            /\ t.curcc \in ShownOf(s) \cup {NoClient}
<1>1. /\ s \in State /\ Good(s, M, M) /\ M \subseteq Windows /\ Clients = Windows
      /\ ToSet(s.clientq) = M
      /\ s.curcc # NoClient => s.curcc \in ShownOf(s)
  BY Sight
<1>2. CASE Has(s, w, "HIDDEN")
  <2>1. SetActive(s, w) = s
    BY <1>2 DEF SetActive
  <2> QED
    BY <1>1, <2>1
<1>3. CASE ~Has(s, w, "HIDDEN")
  <2> DEFINE v == IF s.cycling THEN s ELSE MoveToFront(s, w)
             F == Reflag(Reflag(v.flags, {v.curcc}, {"ACTIVE"}, {}),
                         {w}, {}, {"ACTIVE"})
             t == [v EXCEPT !.flags = F, !.curcc = w, !.net_active = w]
  <2>1. SetActive(s, w) = t
    BY <1>3 DEF SetActive
  <2>2. Good(v, M, M) /\ v \in State
    <3>1. Good(v, M, M)
      BY <1>1, MoveToFrontGood
    <3> HIDE DEF v
    <3> QED
      BY <3>1, KnownType
  <2>3. v.group = s.group /\ v.flags = s.flags /\ v.group_current = s.group_current
    <3>1. CASE s.cycling
      BY <3>1
    <3>2. CASE ~s.cycling
      <4>1. v = MoveToFront(s, w)
        BY <3>2
      <4> HIDE DEF v
      <4> QED
        BY <1>1, <4>1, MoveToFrontFields
    <3> QED
      BY <3>1, <3>2
  <2>4. ToSet(v.clientq) = M
    BY <2>2 DEF Good, Managed
  <2> HIDE DEF v
  <2>5. /\ t.clientq = v.clientq /\ t.group = v.group /\ t.flags = F
        /\ t.group_current = v.group_current /\ t.curcc = w
    BY <2>2 DEF State
  <2>6. \A x \in Windows : /\ "HIDDEN" \in F[x] <=> "HIDDEN" \in s.flags[x]
                           /\ "STICKY" \in F[x] <=> "STICKY" \in s.flags[x]
    BY <1>1, <2>3 DEF Reflag
  <2> HIDE DEF F, t
  <2>7. DeskOf(t) = DeskOf(s) /\ StickyOf(t) = StickyOf(s) /\ ShownOf(t) = ShownOf(s)
    <3>1. DeskOf(t) = DeskOf(s)
      BY <2>3, <2>5 DEF DeskOf
    <3>2. StickyOf(t) = StickyOf(s)
      BY <2>5, <2>6 DEF StickyOf
    <3>3. ShownOf(s) = {x \in M : "HIDDEN" \notin s.flags[x]}
      BY <1>1 DEF ShownOf
    <3>4. ShownOf(t) = {x \in M : "HIDDEN" \notin F[x]}
      BY <2>4, <2>5 DEF ShownOf
    <3>5. ShownOf(t) = ShownOf(s)
      BY <1>1, <2>6, <3>3, <3>4
    <3> QED
      BY <3>1, <3>2, <3>5
  <2>8. w \in ShownOf(s)
    <3>1. ShownOf(s) = {x \in M : "HIDDEN" \notin s.flags[x]}
      BY <1>1 DEF ShownOf
    <3> QED
      BY <1>3, <3>1 DEF Has
  <2> QED
    BY <2>1, <2>3, <2>5, <2>7, <2>8
<1> QED
  BY <1>2, <1>3


\* A window that is ignored looks the same.
LEMMA IgnoreSeen ==
  ASSUME Tidy, NEW s, NEW M, Fine(s, M, M), NEW w \in M
  PROVE  SameSight(s, [s EXCEPT !.flags[w] = @ \cup {"IGNORE"}])
<1> DEFINE F == s.flags[w] \cup {"IGNORE"}
           t == [s EXCEPT !.flags[w] = F]
<1>1. s \in State /\ w \in Windows /\ Clients = Windows
  BY Sight
<1>2. s.flags[w] \in SUBSET Flags
  BY <1>1 DEF State
<1>3. /\ F \in SUBSET Flags /\ ("HIDDEN" \in F <=> "HIDDEN" \in s.flags[w])
      /\ "STICKY" \in F <=> w \in StickyOf(s)
  BY <1>1, <1>2 DEF Flags, StickyOf
<1>4. [s EXCEPT !.flags[w] = @ \cup {"IGNORE"}] = t
  BY <1>1 DEF State
<1> HIDE DEF F
<1>5. t = [s EXCEPT !.flags[w] = F]
  OBVIOUS
<1> HIDE DEF t
<1>6. /\ DeskOf(t) = DeskOf(s) /\ ShownOf(t) = ShownOf(s)
      /\ "STICKY" \in F => StickyOf(t) = StickyOf(s) \cup {w}
      /\ "STICKY" \notin F => StickyOf(t) = StickyOf(s) \ {w}
      /\ t.group_current = s.group_current /\ t.curcc = s.curcc
  <2>1. F \in SUBSET Flags /\ ("HIDDEN" \in F <=> "HIDDEN" \in s.flags[w])
    BY <1>3
  <2> QED
    BY <1>5, <2>1, FlagSeen
<1>7. StickyOf(t) = StickyOf(s)
  BY <1>3, <1>6
<1> QED
  BY <1>4, <1>6, <1>7 DEF SameSight

\* client_transient: the window goes to the group of its owner, or stays.
LEMMA TransientSeen ==
  ASSUME Tidy, NEW s, NEW M, Fine(s, M, M), NEW w \in M
  PROVE  LET t == Transient(s, w)
         IN SameSight(s, t) \/ \E g \in Groups : Joins(s, t, w, g)
<1> DEFINE tc == TransientFor[w]
           g == s.group[tc]
           u == MoveToGroup(s, w, g)
           v == [u EXCEPT !.flags[w] = @ \cup {"IGNORE"}]
           t == Transient(s, w)
<1>1. /\ s \in State /\ M \subseteq Windows /\ ToSet(s.clientq) = M
      /\ \A x \in Windows : DeskOf(s)[x] = s.group[x]
      /\ \A x \in M : DeskOf(s)[x] \in Groups
  BY Sight
<1>2. SameSight(s, s)
  BY DEF SameSight
<1>3. t = IF s.app[w] = "gone" \/ tc \notin M \/ g = NoGroup THEN s
          ELSE IF Has(s, tc, "IGNORE") THEN [u EXCEPT !.flags[w] = @ \cup {"IGNORE"}]
               ELSE u
  BY <1>1 DEF Transient, Managed
<1>4. CASE s.app[w] = "gone" \/ tc \notin M \/ g = NoGroup
  BY <1>2, <1>3, <1>4
<1>5. CASE ~ (s.app[w] = "gone" \/ tc \notin M \/ g = NoGroup)
  <2>1. g \in Groups
    BY <1>1, <1>5
  <2>2. Fine(u, M, M)
    BY <2>1, MoveToGroupFine
  <2>3. SameSight(s, u) \/ Joins(s, u, w, g)
    <3>1. DeskOf(s)[w] = g => u = s
      BY <1>1 DEF MoveToGroup
    <3>2. DeskOf(s)[w] # g => Joins(s, u, w, g)
      BY <2>1, MoveToGroupSeen
    <3> HIDE DEF u, g
    <3> QED
      BY <1>2, <3>1, <3>2
  <2> HIDE DEF u, g, tc, t
  <2>4. SameSight(u, v)
    BY <2>2, IgnoreSeen
  <2> HIDE DEF v
  <2>10. SameSight(s, v) \/ Joins(s, v, w, g)
    BY <2>3, <2>4 DEF SameSight, Joins, KeepsFocus
  <2>11. t = u \/ t = v
    BY <1>3, <1>5 DEF v
  <2> QED
    BY <2>1, <2>3, <2>10, <2>11 DEF t
<1> QED
  BY <1>4, <1>5

\* client_init touches no client but the one it makes.
Only(s, t, w) ==
  /\ \A v \in Windows \ {w} : /\ t.flags[v] = s.flags[v]
                              /\ t.group[v] = s.group[v]
                              /\ t.mapped[v] = s.mapped[v]
  /\ t.group_current = s.group_current /\ t.curcc = s.curcc

\* ... nor do the operators it uses.
LEMMA OnlyHide ==
  ASSUME NEW s \in State, NEW w, s.curcc # w
  PROVE  Only(s, Hide(s, w), w)
<1> DEFINE t == Hide(s, w)
           L == {c \in {w} : ~Has(s, c, "STICKY")}
<1>1. /\ SameDesks(s, t) /\ t.flags = Reflag(s.flags, L, {"ACTIVE"}, {"HIDDEN"})
      /\ t.curcc = IF s.curcc \in L THEN NoClient ELSE s.curcc
      /\ t.mapped = [v \in Windows |-> s.mapped[v] /\ v \notin L]
  BY HideAllFields DEF Hide
<1>2. \A v \in Windows : s.mapped[v] \in BOOLEAN
  BY DEF State
<1> HIDE DEF t
<1>3. \A v \in Windows \ {w} : t.mapped[v] = s.mapped[v]
  BY <1>1, <1>2
<1> QED
  BY <1>1, <1>3 DEF Only, SameDesks, Reflag, Clients, t

\* client_unhide of one window changes that window only.
LEMMA OnlyUnhide ==
  ASSUME NEW s \in State, NEW w
  PROVE  Only(s, Unhide(s, w), w)
<1> DEFINE t == Unhide(s, w)
           L == {c \in {w} : ~Has(s, c, "STICKY")}
<1>1. /\ SameDesks(s, t) /\ t.flags = Reflag(s.flags, L, {"HIDDEN"}, {})
      /\ t.curcc = s.curcc
      /\ t.mapped = [v \in Windows |->
                       s.mapped[v] \/ (v \in L /\ s.app[v] # "gone")]
  BY UnhideAllFields DEF Unhide
<1>2. \A v \in Windows : s.mapped[v] \in BOOLEAN
  BY DEF State
<1> HIDE DEF t
<1>3. \A v \in Windows \ {w} : t.mapped[v] = s.mapped[v]
  BY <1>1, <1>2
<1> QED
  BY <1>1, <1>3 DEF Only, SameDesks, Reflag, Clients, t

\* group_assign of one window changes that window only.
LEMMA OnlyAssign ==
  ASSUME NEW s \in State, NEW w, NEW g
  PROVE  Only(s, Assign(s, w, g), w)
<1> DEFINE t == Assign(s, w, g)
<1>1. /\ t.curcc = s.curcc /\ t.group_current = s.group_current
      /\ t.flags = s.flags /\ t.mapped = s.mapped
      /\ t.group = [c \in Clients |-> IF c \in {w} THEN g ELSE s.group[c]]
  BY AssignAllFields DEF Assign
<1> HIDE DEF t
<1> QED
  BY <1>1 DEF Only, Clients, t

\* cc->flags of one window are its own.
LEMMA OnlyFlag ==
  ASSUME NEW s \in State, NEW w, NEW F
  PROVE  Only(s, [s EXCEPT !.flags[w] = F], w)
<1> DEFINE t == [s EXCEPT !.flags[w] = F]
<1>1. /\ t.curcc = s.curcc /\ t.group_current = s.group_current
      /\ t.group = s.group /\ t.flags = [s.flags EXCEPT ![w] = F]
      /\ t.mapped = s.mapped
  BY DEF State
<1>2. \A v \in Windows \ {w} : [s.flags EXCEPT ![w] = F][v] = s.flags[v]
  BY DEF State, Clients
<1> HIDE DEF t
<1> QED
  BY <1>1, <1>2 DEF Only, t

\* group_movetogroup changes the window it moves only.
LEMMA OnlyMove ==
  ASSUME NEW s \in State, NEW w, NEW g, s.curcc # w, Hide(s, w) \in State
  PROVE  Only(s, MoveToGroup(s, w, g), w)
<1> DEFINE u == IF HoldsOnlyHidden(s, g) THEN Hide(s, w) ELSE s
           t == Assign(u, w, g)
<1>1. u \in State /\ Only(s, u, w)
  BY OnlyHide DEF Only
<1>2. MoveToGroup(s, w, g) = IF s.group[w] = g THEN s ELSE t
  BY DEF MoveToGroup
<1> HIDE DEF u
<1>3. Only(u, t, w)
  BY <1>1, OnlyAssign
<1> HIDE DEF t
<1> QED
  BY <1>1, <1>2, <1>3 DEF Only

\* client_transient changes the dialog only.
LEMMA OnlyTransient ==
  ASSUME NEW s, NEW M, NEW K, Fine(s, M, K), NEW w \in K, s.curcc # w
  PROVE  Only(s, Transient(s, w), w)
<1> DEFINE tc == TransientFor[w]
           u == MoveToGroup(s, w, s.group[tc])
           v == [u EXCEPT !.flags[w] = @ \cup {"IGNORE"}]
           t == Transient(s, w)
<1>1. Only(s, s, w)
  BY DEF Only
<1>2. t = IF s.app[w] = "gone" \/ tc \notin Managed(s) \/ s.group[tc] = NoGroup
            THEN s
          ELSE IF Has(s, tc, "IGNORE") THEN v ELSE u
  BY DEF Transient
<1>3. CASE s.app[w] = "gone" \/ tc \notin Managed(s) \/ s.group[tc] = NoGroup
  BY <1>1, <1>2, <1>3
<1>4. CASE ~ (s.app[w] = "gone" \/ tc \notin Managed(s) \/ s.group[tc] = NoGroup)
  <2>1. s.group[tc] \in Groups
    BY <1>4 DEF Good, Fine
  <2>2. Fine(u, M, K) /\ Fine(Hide(s, w), M, K)
    BY <2>1, MoveToGroupFine, HideAllFine DEF Hide
  <2>3. s \in State /\ u \in State /\ Hide(s, w) \in State
    BY <2>2, KnownType DEF Fine
  <2>4. Only(s, u, w)
    BY <2>3, OnlyMove
  <2> HIDE DEF u
  <2>5. Only(u, v, w)
    BY <2>3, OnlyFlag
  <2> HIDE DEF v, t
  <2>6. t = v \/ t = u
    BY <1>2, <1>4
  <2>7. Only(s, t, w)
    BY <2>4, <2>5, <2>6 DEF Only
  <2> QED
    BY <2>7 DEF t
<1> QED
  BY <1>3, <1>4

\* client_toggle_sticky changes its window only.
LEMMA OnlyToggle ==
  ASSUME NEW s, NEW M, NEW K, Fine(s, M, K), NEW w \in K
  PROVE  Only(s, ToggleSticky(s, w), w)
<1> DEFINE u == [s EXCEPT !.flags[w] = @ \ {"STICKY"}]
           v == [s EXCEPT !.flags[w] = @ \cup {"STICKY"}]
           t == Assign(u, w, s.group_current)
<1>1. s \in State /\ w \in Clients
  BY KnownType DEF Fine, Clients
<1>2. s.flags[w] \ {"STICKY"} \in SUBSET Flags
  BY <1>1 DEF State
<1>3. [s.flags EXCEPT ![w] = @ \ {"STICKY"}] \in [Clients -> SUBSET Flags]
  BY <1>1, <1>2 DEF State
<1>4. u \in State
  BY <1>1, <1>3 DEF State
<1>5. Only(s, u, w) /\ Only(s, v, w)
  BY <1>1, OnlyFlag
<1>6. ToggleSticky(s, w) = IF Has(s, w, "STICKY") THEN t ELSE v
  BY DEF ToggleSticky
<1> HIDE DEF u
<1>7. Only(u, t, w)
  BY <1>4, OnlyAssign
<1> HIDE DEF t
<1>8. Only(s, t, w)
  BY <1>5, <1>7 DEF Only
<1> QED
  BY <1>5, <1>6, <1>8

\* client_init, of a window that is none of the clients, as a whole.
LEMMA ClientInitOnly ==
  ASSUME NEW s, NEW M, Fine(s, M, M), NEW w \in Windows \ M,
         NEW hint \in {"none", "Normal", "Iconic"}, NEW atoms \in SUBSET Atoms
  PROVE  Only(s, ClientInit(s, w, hint, atoms), w)
<1> DEFINE K == M \cup {w}
           a == IF hint # "none" /\ ~s.mapped[w]
                  THEN [s EXCEPT !.wm_state[w] = hint] ELSE s
           b == Assign(a, w, AutogroupOf(a, w))
           c == IF w \in Ignored
                  THEN [b EXCEPT !.flags[w] = @ \cup {"IGNORE"}] ELSE b
           d == Transient(c, w)
           e == ListClients([d EXCEPT !.clientq = Append(@, w)])
           f == IF "STICKY" \in atoms THEN ToggleSticky(e, w) ELSE e
           g == IF "HIDDEN" \in atoms THEN ToggleHidden(f, w) ELSE f
<1>1. /\ s \in State /\ w \in K /\ w \in Clients /\ s.curcc # w
  <2>1. Good(s, M, M)
    BY DEF Fine
  <2> QED
    BY <2>1, KnownType, ClientsAssumption DEF Clients, Good
<1>2. Fine(a, M, M) /\ Only(s, a, w)
  <2> DEFINE r == [s EXCEPT !.wm_state[w] = hint]
  <2>1. [s.wm_state EXCEPT ![w] = hint]
          \in [Windows -> {"none", "Normal", "Iconic", "Withdrawn"}]
    BY <1>1 DEF State
  <2>2. /\ r \in State /\ SameDesks(s, r) /\ r.curcc = s.curcc
        /\ r.net_active = s.net_active /\ r.cycling = s.cycling
        /\ r.mapped = s.mapped /\ r.flags = s.flags /\ r.members = s.members
    BY <1>1, <2>1 DEF State, SameDesks
  <2> HIDE DEF r
  <2>3. Good(r, M, M)
    BY <2>2, SameLists DEF SameDesks, Fine
  <2>4. Fine(r, M, M)
    BY <2>2, <2>3, SameFine DEF Has
  <2>5. Only(s, r, w) /\ Only(s, s, w)
    BY <2>2 DEF Only, SameDesks
  <2> QED
    BY <2>4, <2>5 DEF r
<1> HIDE DEF a
<1>3. Fine(b, M, K) /\ Only(a, b, w)
  <2>1. AutogroupOf(a, w) \in Groups
    BY <1>2, AutogroupType, KnownType DEF Fine
  <2>2. K = M \cup ({w} \cap Windows)
    OBVIOUS
  <2>3. Only(a, b, w)
    BY <1>2, KnownType, OnlyAssign DEF Fine
  <2> HIDE DEF K
  <2> QED
    BY <1>1, <1>2, <2>1, <2>2, <2>3, AssignAllFine DEF Assign
<1> HIDE DEF b, K
<1>4. Fine(c, M, K) /\ Only(b, c, w)
  <2>1. Fine([b EXCEPT !.flags[w] = @ \cup {"IGNORE"}], M, K)
    BY <1>1, <1>3, IgnoreFine
  <2>2. b \in State
    BY <1>3, KnownType DEF Fine
  <2>3. Only(b, [b EXCEPT !.flags[w] = @ \cup {"IGNORE"}], w)
    BY <2>2, OnlyFlag
  <2>4. Only(b, b, w)
    BY DEF Only
  <2> QED
    BY <1>3, <2>1, <2>3, <2>4
<1> HIDE DEF c
<1>5. Fine(d, M, K) /\ Only(c, d, w)
  <2>1. Fine(d, M, K)
    BY <1>1, <1>4, TransientFine
  <2>2. c.curcc # w
    BY <1>1, <1>2, <1>3, <1>4 DEF Only
  <2>3. Only(c, d, w)
    BY <1>1, <1>4, <2>2, OnlyTransient
  <2> QED
    BY <2>1, <2>3
<1> HIDE DEF d
<1>6. Fine(e, K, K) /\ Only(d, e, w)
  <2>1. Fine(e, K, K)
    BY <1>5, ManageFine DEF K
  <2>2. d \in State
    BY <1>5, KnownType DEF Fine
  <2>3. Only(d, e, w)
    BY <2>2 DEF ListClients, State, Only
  <2> QED
    BY <2>1, <2>3
<1> HIDE DEF e
<1>7. Fine(f, K, K) /\ Only(e, f, w)
  <2>1. Fine(f, K, K)
    BY <1>1, <1>6, ToggleStickyFine
  <2>2. Only(e, f, w)
    BY <1>1, <1>6, OnlyToggle DEF Only
  <2> QED
    BY <2>1, <2>2
<1> HIDE DEF f
<1>8. Fine(g, K, K) /\ Only(f, g, w)
  <2>1. Fine(g, K, K)
    BY <1>1, <1>7, ToggleHiddenFine DEF Atoms
  <2>2. f \in State /\ Only(f, f, w)
    BY <1>7, KnownType DEF Fine, Only
  <2>3. Only(f, ToggleHidden(f, w), w)
    BY <2>2, OnlyFlag DEF ToggleHidden
  <2> QED
    BY <2>1, <2>2, <2>3
<1> HIDE DEF g
<1>9. g.curcc # w /\ Only(s, g, w)
  BY <1>1, <1>2, <1>3, <1>4, <1>5, <1>6, <1>7, <1>8 DEF Only
<1>10. Only(g, Hide(g, w), w) /\ Only(g, Unhide(g, w), w)
  BY <1>8, <1>9, KnownType, OnlyHide, OnlyUnhide DEF Fine
<1>11. ClientInit(s, w, hint, atoms) =
         IF g.wm_state[w] = "Iconic" THEN Hide(g, w) ELSE Unhide(g, w)
  BY DEF ClientInit, a, b, c, d, e, f, g
<1> DEFINE t == ClientInit(s, w, hint, atoms)
<1>12. Only(g, t, w)
  BY <1>10, <1>11
<1> HIDE DEF t
<1>13. Only(s, t, w)
  BY <1>9, <1>12 DEF Only
<1> QED
  BY <1>13 DEF t

\* What Only says of what a user sees, when the window is new.
LEMMA OpenedSeen ==
  ASSUME Tidy, NEW s, NEW M, Fine(s, M, M), NEW w \in Windows \ M,
         NEW t, Fine(t, M \cup {w}, M \cup {w}), Only(s, t, w)
  PROVE  \E g \in Groups : Opened(s, t, w, g)
<1> DEFINE g == t.group[w]
<1>1. /\ ToSet(s.clientq) = M /\ M \subseteq Windows /\ DeskOf(s)[w] = NoGroup
      /\ StickyOf(s) \subseteq M
  BY Sight
<1>2. /\ ToSet(t.clientq) = M \cup {w} /\ g \in Groups
  <2> DEFINE N == M \cup {w}
  <2>1. w \in N /\ Fine(t, N, N)
    OBVIOUS
  <2> HIDE DEF N
  <2>2. ToSet(t.clientq) = N /\ DeskOf(t)[w] \in Groups /\ DeskOf(t)[w] = t.group[w]
    BY <2>1, Sight
  <2> QED
    BY <2>2 DEF N
<1>3. \A v \in Windows \ {w} : t.flags[v] = s.flags[v] /\ t.group[v] = s.group[v]
  BY DEF Only
<1>4. DeskOf(t) = [DeskOf(s) EXCEPT ![w] = g]
  BY <1>3 DEF DeskOf
<1>5. StickyOf(t) \in {StickyOf(s), StickyOf(s) \cup {w}}
  <2>1. CASE "STICKY" \in t.flags[w]
    <3>1. StickyOf(t) = StickyOf(s) \cup {w}
      BY <1>3, <2>1 DEF StickyOf
    <3> QED
      BY <3>1
  <2>2. CASE "STICKY" \notin t.flags[w]
    <3>1. StickyOf(t) = StickyOf(s)
      BY <1>1, <1>3, <2>2 DEF StickyOf
    <3> QED
      BY <3>1
  <2> QED
    BY <2>1, <2>2
<1>6. ShownOf(t) \in {ShownOf(s), ShownOf(s) \cup {w}}
  <2>1. CASE "HIDDEN" \in t.flags[w]
    <3>1. ShownOf(t) = ShownOf(s)
      BY <1>1, <1>2, <1>3, <2>1 DEF ShownOf
    <3> QED
      BY <3>1
  <2>2. CASE "HIDDEN" \notin t.flags[w]
    <3>1. ShownOf(t) = ShownOf(s) \cup {w}
      BY <1>1, <1>2, <1>3, <2>2 DEF ShownOf
    <3> QED
      BY <3>1
  <2> QED
    BY <2>1, <2>2
<1> QED
  BY <1>1, <1>2, <1>4, <1>5, <1>6 DEF Opened, Only

\* xev_handle_maprequest.
LEMMA MapRequestedSeen ==
  ASSUME Tidy, NEW s, NEW M, Fine(s, M, M), NEW w \in Windows,
         NEW hint \in {"none", "Normal", "Iconic"}, NEW atoms \in SUBSET Atoms
  PROVE  LET t == MapRequested(s, w, hint, atoms)
         IN \/ SameSight(s, t)
            \/ Showed(s, t, w)
            \/ \E g \in Groups : Opened(s, t, w, g)
<1>1. Managed(s) = M /\ s \in State
  BY Sight DEF Managed
<1>2. CASE w \notin M /\ s.app[w] = "gone"
  <2> DEFINE t == [s EXCEPT !.alive = FALSE]
  <2>1. /\ t.clientq = s.clientq /\ t.group = s.group /\ t.flags = s.flags
        /\ t.group_current = s.group_current /\ t.curcc = s.curcc
    BY <1>1 DEF State
  <2>2. MapRequested(s, w, hint, atoms) = t
    BY <1>1, <1>2 DEF MapRequested
  <2> HIDE DEF t
  <2>3. SameSight(s, t)
    BY <2>1 DEF SameSight, DeskOf, StickyOf, ShownOf
  <2> QED
    BY <2>2, <2>3
<1>3. CASE w \in M
  <2>1. MapRequested(s, w, hint, atoms)
          = IF Has(s, w, "IGNORE") THEN s ELSE PtrWarp(s, w)
    BY <1>1, <1>3 DEF MapRequested
  <2>2. SameSight(s, s)
    BY DEF SameSight
  <2>3. SameSight(s, PtrWarp(s, w)) \/ Showed(s, PtrWarp(s, w), w)
    BY <1>3, WarpSeen
  <2> QED
    BY <2>1, <2>2, <2>3
<1>4. CASE w \notin M /\ s.app[w] # "gone"
  <2> DEFINE t == ClientInit(s, w, hint, atoms)
             u == PtrWarp(t, w)
             N == M \cup {w}
  <2>1. Fine(t, N, N) /\ Only(s, t, w)
    BY <1>4, ClientInitFine, ClientInitOnly
  <2>2. MapRequested(s, w, hint, atoms) = IF Has(t, w, "IGNORE") THEN t ELSE u
    BY <1>1, <1>4 DEF MapRequested
  <2> HIDE DEF t
  <2>3. w \in N
    OBVIOUS
  <2> HIDE DEF N
  <2>4. Fine(u, N, N) /\ t \in State
    BY <2>1, <2>3, PtrWarpFine, KnownType DEF Fine
  <2>5. Only(t, u, w)
    BY <2>4, OnlyUnhide DEF PtrWarp, Only
  <2> HIDE DEF u
  <2>6. Only(s, u, w)
    BY <2>1, <2>5 DEF Only
  <2>7. (\E g \in Groups : Opened(s, t, w, g)) /\ (\E g \in Groups : Opened(s, u, w, g))
    BY <1>4, <2>1, <2>4, <2>6, OpenedSeen DEF N
  <2> QED
    BY <2>2, <2>7
<1> QED
  BY <1>2, <1>3, <1>4

\* xu_ewmh_handle_net_wm_state_msg toggles the sticky flag or nothing.
LEMMA NetWmStateSeen ==
  ASSUME Tidy, NEW s, NEW w, NEW action, NEW atoms \in SUBSET Atoms
  PROVE  NetWmState(s, w, action, atoms) \in {s, ToggleSticky(s, w)}
BY DEF NetWmState, Atoms, Tidy

\* group_alltoggle hides everything or shows everything.
LEMMA AllToggleSeen ==
  ASSUME Tidy, NEW s, NEW M, Fine(s, M, M)
  PROVE  LET t == GroupAllToggle(s)
         IN /\ StickyOf(t) = StickyOf(s) /\ t.group_current = s.group_current
            /\ \/ /\ DeskOf(t) = DeskOf(s)
                  /\ ShownOf(t) = ShownOf(s) \cap StickyOf(s)
                  /\ KeepsFocus(s, t)
               \/ /\ ShownOf(t) = ShownOf(s) \cup LooseOf(s)
                  /\ t.curcc = s.curcc
                  /\ \/ DeskOf(t) = DeskOf(s)
                     \/ \E g \in Groups :
                          DeskOf(t) = [w \in Windows |->
                                         IF w \in StickyOf(s) THEN g
                                         ELSE DeskOf(s)[w]]
<1> DEFINE all == UNION {s.members[g] : g \in Groups}
           r == [s EXCEPT !.hideall = ~@]
           h == HideAll(r, all)
           u == UnhideAll(r, all)
           t == GroupAllToggle(s)
<1>1. /\ s \in State /\ Good(s, M, M) /\ M \subseteq Windows
      /\ StickyOf(s) \subseteq M /\ ShownOf(s) \subseteq M
      /\ LooseOf(s) = M \ StickyOf(s)
      /\ \A w \in M : DeskOf(s)[w] \in Groups
      /\ \A g \in Groups : s.members[g] = OnOf(s, g) /\ OnOf(s, g) \subseteq M
  BY Sight
<1>2. all = M
  BY <1>1 DEF OnOf
<1>3. t = h \/ t = u \/ \E g \in Groups : t = AssignAll(u, StickyClients(u), g)
  BY <1>1, AllToggleShape
<1>4. /\ r \in State /\ SameDesks(s, r) /\ r.curcc = s.curcc
      /\ r.net_active = s.net_active /\ r.cycling = s.cycling
      /\ r.mapped = s.mapped /\ r.flags = s.flags /\ r.members = s.members
  BY <1>1 DEF State, SameDesks
<1> HIDE DEF r, all, t
<1>5. Fine(r, M, M)
  <2>1. Good(r, M, M)
    BY <1>1, <1>4, SameLists DEF SameDesks
  <2> QED
    BY <1>4, <2>1, SameFine DEF Has
<1>6. /\ DeskOf(r) = DeskOf(s) /\ StickyOf(r) = StickyOf(s)
      /\ ShownOf(r) = ShownOf(s) /\ r.group_current = s.group_current
  BY <1>4 DEF SameDesks, DeskOf, StickyOf, ShownOf
<1>7. /\ DeskOf(h) = DeskOf(r) /\ StickyOf(h) = StickyOf(r)
      /\ ShownOf(h) = ShownOf(r) \ (all \ StickyOf(r))
      /\ h.group_current = r.group_current /\ KeepsFocus(r, h)
  BY <1>2, <1>5, HideAllSeen
<1>8. /\ DeskOf(u) = DeskOf(r) /\ StickyOf(u) = StickyOf(r)
      /\ ShownOf(u) = ShownOf(r) \cup (all \ StickyOf(r))
      /\ u.group_current = r.group_current /\ u.curcc = r.curcc
  BY <1>2, <1>5, UnhideAllSeen
<1>9. Fine(u, M, M)
  BY <1>2, <1>5, UnhideAllFine
<1> HIDE DEF h, u
<1>10. StickyClients(u) = StickyOf(u) /\ StickyOf(u) \subseteq M
  BY <1>9, Sight DEF StickyClients, StickyOf, Managed, Has
<1>11. CASE t = h
  <2>1. ShownOf(t) = ShownOf(s) \cap StickyOf(s)
    BY <1>1, <1>2, <1>6, <1>7, <1>11
  <2> QED
    BY <1>4, <1>6, <1>7, <1>11, <2>1 DEF KeepsFocus, t
<1>12. ShownOf(u) = ShownOf(s) \cup LooseOf(s)
  BY <1>1, <1>2, <1>6, <1>8
<1>13. CASE t = u
  BY <1>4, <1>6, <1>8, <1>12, <1>13 DEF t
<1>14. ASSUME NEW g \in Groups, t = AssignAll(u, StickyOf(u), g)
       PROVE  /\ StickyOf(t) = StickyOf(s) /\ t.group_current = s.group_current
              /\ ShownOf(t) = ShownOf(s) \cup LooseOf(s) /\ t.curcc = s.curcc
              /\ DeskOf(t) = [w \in Windows |-> IF w \in StickyOf(s) THEN g
                                                ELSE DeskOf(s)[w]]
  <2> DEFINE v == AssignAll(u, StickyOf(u), g)
  <2>1. /\ DeskOf(v) = [w \in Windows |-> IF w \in StickyOf(u) THEN g
                                          ELSE DeskOf(u)[w]]
        /\ StickyOf(v) = StickyOf(u) /\ ShownOf(v) = ShownOf(u)
        /\ v.group_current = u.group_current /\ v.curcc = u.curcc
    BY <1>9, <1>10, AssignAllSeen
  <2>2. t = v
    BY <1>14
  <2> HIDE DEF v
  <2> QED
    BY <1>4, <1>6, <1>8, <1>12, <2>1, <2>2
<1>15. CASE \E g \in Groups : t = AssignAll(u, StickyClients(u), g)
  BY <1>10, <1>14, <1>15 DEF t
<1> QED
  BY <1>3, <1>11, <1>13, <1>15

\* client_cycle warps to a window that is in sight.
LEMMA CycleSeen ==
  ASSUME Tidy, NEW s, NEW M, Fine(s, M, M),
         NEW dir \in {1, -1}, NEW ingroup \in BOOLEAN
  PROVE  SameSight(s, Cycle(s, dir, ingroup))
<1> DEFINE r == [s EXCEPT !.cycling = TRUE]
           w == CycleTarget(s, dir, ingroup)
           t == PtrWarp(r, w)
<1>1. Good(s, M, M) /\ s \in State /\ M \subseteq Windows
  BY Sight
<1>2. SameSight(s, r) /\ r.flags = s.flags
  <2>1. /\ r.clientq = s.clientq /\ r.group = s.group /\ r.flags = s.flags
        /\ r.group_current = s.group_current /\ r.curcc = s.curcc
    BY <1>1 DEF State
  <2> HIDE DEF r
  <2> QED
    BY <2>1 DEF SameSight, DeskOf, StickyOf, ShownOf
<1>3. Cycle(s, dir, ingroup) = IF s.clientq = <<>> \/ w = NoClient THEN s ELSE t
  BY DEF Cycle
<1>4. CASE s.clientq = <<>> \/ w = NoClient
  BY <1>3, <1>4 DEF SameSight
<1>5. CASE ~ (s.clientq = <<>> \/ w = NoClient)
  <2>1. "HIDDEN" \notin s.flags[w]
    BY <1>1, <1>5, CycleTargetType DEF Good
  <2> HIDE DEF r, w
  <2>2. t = r
    BY <1>2, <2>1 DEF PtrWarp, Has
  <2> QED
    BY <1>2, <1>3, <1>5, <2>2
<1> QED
  BY <1>4, <1>5

\* client_cycle_leave reorders the list only.
LEMMA CycleLeaveSeen ==
  ASSUME Tidy, NEW s, NEW M, Fine(s, M, M)
  PROVE  SameSight(s, CycleLeave(s))
<1> DEFINE t == [s EXCEPT !.cycling = FALSE]
           u == MoveToFront(t, t.curcc)
<1>1. Good(s, M, M) /\ s \in State
  BY Sight
<1>2. /\ t \in State /\ SameDesks(s, t) /\ t.members = s.members
      /\ t.curcc = s.curcc /\ t.net_active = s.net_active
      /\ t.mapped = s.mapped /\ t.flags = s.flags
  BY <1>1, CyclingType, ZenonT(60) DEF State, SameDesks
<1>3. CycleLeave(s) = IF t.curcc = NoClient THEN t ELSE u
  BY DEF CycleLeave
<1> HIDE DEF t
<1>4. Good(t, M, M)
  BY <1>1, <1>2, SameLists DEF SameDesks
<1>5. SameSight(s, t)
  BY <1>2 DEF SameDesks, SameSight, DeskOf, StickyOf, ShownOf
<1>6. CASE t.curcc = NoClient
  BY <1>3, <1>5, <1>6
<1>7. CASE t.curcc # NoClient
  <2>1. t.curcc \in M
    BY <1>4, <1>7 DEF Good
  <2>2. /\ Managed(u) = M /\ Managed(t) = M /\ u.group = t.group
        /\ u.group_current = t.group_current /\ u.curcc = t.curcc
        /\ u.flags = t.flags
    BY <1>4, <2>1, MoveToFrontFields
  <2> HIDE DEF u
  <2>3. SameSight(t, u)
    BY <2>2 DEF SameSight, DeskOf, StickyOf, ShownOf, Managed
  <2> QED
    BY <1>3, <1>5, <1>7, <2>3 DEF SameSight
<1> QED
  BY <1>6, <1>7

----------------------------------------------------------------------------
(* Steps of Desktop, from what a user sees before and after.               *)

\* The variables of Desktop before and after a handler that leaves state t.
LEMMA Seen ==
  ASSUME NEW t \in State, Become(t)
  PROVE  /\ [w \in Windows |-> group[w]] = DeskOf(S)
         /\ {w \in Windows : "STICKY" \in flags[w]} = StickyOf(S)
         /\ {w \in ToSet(clientq) : "HIDDEN" \notin flags[w]} = ShownOf(S)
         /\ group_current = S.group_current /\ curcc = S.curcc
         /\ [w \in Windows |-> group'[w]] = DeskOf(t)
         /\ {w \in Windows : "STICKY" \in flags'[w]} = StickyOf(t)
         /\ {w \in ToSet(clientq') : "HIDDEN" \notin flags'[w]} = ShownOf(t)
         /\ group_current' = t.group_current /\ curcc' = t.curcc
BY DEF DeskOf, StickyOf, ShownOf, S, Become

\* Nothing that can be seen.
LEMMA StutterStep ==
  ASSUME NEW t \in State, Become(t),
         SameSight(S, t)
  PROVE  UNCHANGED D!dvars
BY Seen DEF SameSight, D!dvars

\* D!Open.
LEMMA OpenStep ==
  ASSUME NEW t \in State, Become(t), NEW w \in Windows, NEW g \in Groups,
         Opened(S, t, w, g)
  PROVE  D!Open(w, g)
BY Seen DEF Opened, D!Open

\* D!Close.
LEMMA CloseStep ==
  ASSUME NEW t \in State, Become(t), NEW w \in Windows,
         DeskOf(t) = [DeskOf(S) EXCEPT ![w] = NoGroup],
         StickyOf(t) = StickyOf(S) \ {w},
         ShownOf(t) = ShownOf(S) \ {w},
         t.group_current = S.group_current, KeepsFocus(S, t)
  PROVE  D!Close(w)
BY Seen DEF D!Close, D!FocusKept, KeepsFocus

\* D!Focus.
LEMMA FocusStep ==
  ASSUME NEW t \in State, Become(t),
         DeskOf(t) = DeskOf(S), StickyOf(t) = StickyOf(S), ShownOf(t) = ShownOf(S),
         t.group_current = S.group_current, t.curcc \in ShownOf(S) \cup {NoClient}
  PROVE  D!Focus
BY Seen DEF D!Focus

\* D!HideOne.
LEMMA HideOneStep ==
  ASSUME NEW t \in State, Become(t), NEW w \in Windows,
         DeskOf(t) = DeskOf(S), StickyOf(t) = StickyOf(S),
         ShownOf(t) = ShownOf(S) \ ({w} \ StickyOf(S)),
         t.group_current = S.group_current, KeepsFocus(S, t)
  PROVE  D!HideOne(w)
BY Seen DEF D!HideOne, D!FocusKept, KeepsFocus

\* D!ShowOne.
LEMMA ShowOneStep ==
  ASSUME NEW t \in State, Become(t), NEW w \in Windows, Showed(S, t, w)
  PROVE  D!ShowOne(w)
BY Seen DEF Showed, D!ShowOne, D!Loose, LooseOf

\* D!Join.
LEMMA JoinStep ==
  ASSUME NEW t \in State, Become(t), NEW w \in Windows, NEW g \in Groups,
         Joins(S, t, w, g)
  PROVE  D!Join(w, g)
<1>1. w \notin LooseOf(S) <=> w \in StickyOf(S)
  BY DEF Joins, LooseOf
<1>2. ShownOf(t) = IF OnOf(S, g) \cap LooseOf(S) \cap ShownOf(S) = {}
                     THEN ShownOf(S) \ ({w} \ StickyOf(S)) ELSE ShownOf(S)
  BY <1>1 DEF Joins
<1> QED
  BY <1>2, Seen DEF Joins, D!Join, D!Loose, LooseOf, D!On, OnOf, D!FocusKept, KeepsFocus

\* D!Send, to a group with no window in sight.
LEMMA SendStep ==
  ASSUME NEW t \in State, Become(t), NEW w \in Windows, NEW g \in Groups,
         Joins(S, t, w, g), OnOf(S, g) \cap LooseOf(S) \cap ShownOf(S) = {}
  PROVE  D!Send(w, g)
<1>1. w \notin LooseOf(S) <=> w \in StickyOf(S)
  BY DEF Joins, LooseOf
<1>2. ShownOf(t) = ShownOf(S) \ ({w} \ StickyOf(S))
  BY <1>1 DEF Joins
<1> QED
  BY <1>2, Seen DEF Joins, D!Send, D!FocusKept, KeepsFocus

\* D!Toggle.
LEMMA ToggleStep ==
  ASSUME NEW t \in State, Become(t), NEW w \in Windows,
         DeskOf(S)[w] # NoGroup,
         DeskOf(t) = [DeskOf(S) EXCEPT
                        ![w] = IF @ = S.group_current THEN FirstGroup
                                                      ELSE S.group_current],
         StickyOf(t) = StickyOf(S), ShownOf(t) = ShownOf(S),
         t.group_current = S.group_current, t.curcc = S.curcc
  PROVE  D!Toggle(w)
BY Seen DEF D!Toggle

\* D!Stick.
LEMMA StickStep ==
  ASSUME NEW t \in State, Become(t), NEW w \in Windows,
         DeskOf(t) = DeskOf(S), w \in LooseOf(S),
         StickyOf(t) = StickyOf(S) \cup {w},
         ShownOf(t) = ShownOf(S),
         t.group_current = S.group_current, t.curcc = S.curcc
  PROVE  D!Stick(w)
BY Seen DEF D!Stick, D!Loose, LooseOf

\* D!Unstick.
LEMMA UnstickStep ==
  ASSUME NEW t \in State, Become(t), NEW w \in Windows,
         w \in StickyOf(S), StickyOf(t) = StickyOf(S) \ {w},
         DeskOf(t) = [DeskOf(S) EXCEPT ![w] = S.group_current],
         ShownOf(t) = ShownOf(S),
         t.group_current = S.group_current, t.curcc = S.curcc
  PROVE  D!Unstick(w)
BY Seen DEF D!Unstick

\* D!ShowGroup.
LEMMA ShowGroupStep ==
  ASSUME NEW t \in State, Become(t), NEW g \in Groups,
         DeskOf(t) = [w \in Windows |-> IF w \in StickyOf(S) THEN g
                                          ELSE DeskOf(S)[w]],
         StickyOf(t) = StickyOf(S),
         ShownOf(t) = ShownOf(S) \cup (OnOf(S, g) \cap LooseOf(S)),
         t.group_current = S.group_current, t.curcc = S.curcc
  PROVE  D!ShowGroup(g)
BY Seen DEF D!ShowGroup, D!Gather, D!Loose, LooseOf, D!On, OnOf

\* D!HideGroup.
LEMMA HideGroupStep ==
  ASSUME NEW t \in State, Become(t), NEW g \in Groups,
         DeskOf(t) = DeskOf(S), StickyOf(t) = StickyOf(S),
         ShownOf(t) = ShownOf(S) \ (OnOf(S, g) \cap LooseOf(S)),
         t.group_current = S.group_current, KeepsFocus(S, t)
  PROVE  D!HideGroup(g)
BY Seen DEF D!HideGroup, D!Loose, LooseOf, D!On, OnOf, D!FocusKept, KeepsFocus

\* D!Switch.
LEMMA SwitchStep ==
  ASSUME NEW t \in State, Become(t), NEW g \in Groups,
         DeskOf(t) = [w \in Windows |-> IF w \in StickyOf(S) THEN g
                                          ELSE DeskOf(S)[w]],
         StickyOf(t) = StickyOf(S),
         ShownOf(t) = (ShownOf(S) \cap StickyOf(S))
                        \cup (OnOf(S, g) \cap LooseOf(S)),
         t.group_current = g, KeepsFocus(S, t)
  PROVE  D!Switch(g)
BY Seen DEF D!Switch, D!Gather, D!Loose, LooseOf, D!On, OnOf, D!FocusKept, KeepsFocus

\* D!Find.
LEMMA FindStep ==
  ASSUME NEW t \in State, Become(t), NEW w \in Windows,
         DeskOf(S)[w] # NoGroup, DeskOf(S)[w] # S.group_current,
         DeskOf(t) = DeskOf(S), StickyOf(t) = StickyOf(S),
         ShownOf(t) = (ShownOf(S) \cup ({w} \cap LooseOf(S)))
                        \ (OnOf(S, S.group_current) \cap LooseOf(S)),
         t.group_current = DeskOf(S)[w], KeepsFocus(S, t)
  PROVE  D!Find(w)
<1>1. w \notin OnOf(S, S.group_current)
  BY DEF OnOf
<1>2. ShownOf(t) = (ShownOf(S) \ (OnOf(S, S.group_current) \cap LooseOf(S)))
                     \cup ({w} \cap LooseOf(S))
  BY <1>1
<1> QED
  BY <1>2, Seen DEF D!Find, D!Loose, LooseOf, D!On, OnOf, D!FocusKept, KeepsFocus

\* D!HideAll.
LEMMA HideAllStep ==
  ASSUME NEW t \in State, Become(t),
         DeskOf(t) = DeskOf(S), StickyOf(t) = StickyOf(S),
         ShownOf(t) = ShownOf(S) \cap StickyOf(S),
         t.group_current = S.group_current, KeepsFocus(S, t)
  PROVE  D!HideAll
BY Seen DEF D!HideAll, D!FocusKept, KeepsFocus

\* D!ShowAll.
LEMMA ShowAllStep ==
  ASSUME NEW t \in State, Become(t),
         \/ DeskOf(t) = DeskOf(S)
         \/ \E g \in Groups :
              DeskOf(t) = [w \in Windows |-> IF w \in StickyOf(S) THEN g
                                             ELSE DeskOf(S)[w]],
         StickyOf(t) = StickyOf(S),
         ShownOf(t) = ShownOf(S) \cup LooseOf(S),
         t.group_current = S.group_current, t.curcc = S.curcc
  PROVE  D!ShowAll
BY Seen DEF D!ShowAll, D!Gather, D!Loose, LooseOf

----------------------------------------------------------------------------
(* Every action is the step of Desktop it was asked for, one of the two    *)
(* departures, or none.                                                    *)

Promised == Asked \/ Departs \/ UNCHANGED D!dvars

\* What was asked for, and what departs from it, are steps of Desktop.
LEMMA AskedIsNext ==
  ASSUME Asked \/ Departs
  PROVE  D!Next
<1>1. CASE Departs
  <2>1. \/ \E g \in Groups : D!HideGroup(g)
        \/ \E w \in Windows, g \in Groups : D!Join(w, g)
    BY <1>1 DEF Departs
  <2> QED
    BY <2>1 DEF D!Next
<1>2. CASE Asked
  <2>1. \/ \E w \in Windows :
             \/ D!Close(w) \/ D!HideOne(w) \/ D!ShowOne(w) \/ D!Toggle(w)
             \/ D!Stick(w) \/ D!Unstick(w) \/ D!Find(w)
             \/ \E g \in Groups : D!Open(w, g) \/ D!Send(w, g) \/ D!Join(w, g)
        \/ \E g \in Groups : D!ShowGroup(g) \/ D!HideGroup(g) \/ D!Switch(g)
        \/ D!Focus \/ D!HideAll \/ D!ShowAll
    BY <1>2 DEF Asked
  <2> QED
    BY <2>1 DEF D!Next
<1> QED
  BY <1>1, <1>2

\* Applications change nothing that cwm shows its user.
LEMMA AppSeen ==
  ASSUME App
  PROVE  Promised
<1>1. UNCHANGED <<clientq, flags, group, group_current, curcc>>
  <2>1. PICK w \in Windows :
          \/ \E g \in Groups \cup {NoGroup} : AppCreate(w, g)
          \/ AppMap(w) \/ (\E b \in BOOLEAN : AppUnmap(w, b)) \/ AppDestroy(w)
    BY DEF App
  <2>2. ASSUME NEW g, AppCreate(w, g)
        PROVE  UNCHANGED <<clientq, flags, group, group_current, curcc>>
    BY <2>2 DEF AppCreate, Become, S
  <2>3. CASE AppMap(w)
    BY <2>3 DEF AppMap, Become, S
  <2>4. ASSUME NEW b, AppUnmap(w, b)
        PROVE  UNCHANGED <<clientq, flags, group, group_current, curcc>>
    BY <2>4 DEF AppUnmap, Become, S
  <2>5. CASE AppDestroy(w)
    BY <2>5 DEF AppDestroy, Become, S
  <2> QED
    BY <2>1, <2>2, <2>3, <2>4, <2>5
<1> QED
  BY <1>1 DEF Promised, D!dvars

\* The handlers of queued events.
LEMMA StructureSeen ==
  ASSUME Tidy, FInv, Structure
  PROVE  Promised
<1> DEFINE M == Managed(S)
<1>1. evq # <<>>
  BY DEF Structure, HandleMapRequest, HandleUnmapNotify, HandleSendUnmap,
         HandleDestroyNotify, Next_Event
<1>2. Fine(Rest, M, M) /\ Rest \in State
  BY <1>1, RestFine, KnownType DEF Fine
<1>3. SameSight(S, Rest)
  <2>1. /\ Rest.clientq = S.clientq /\ Rest.group = S.group
        /\ Rest.flags = S.flags /\ Rest.group_current = S.group_current
        /\ Rest.curcc = S.curcc
    BY DEF Rest, S
  <2> QED
    BY <2>1 DEF SameSight, DeskOf, StickyOf, ShownOf
<1>4. /\ LooseOf(Rest) = LooseOf(S)
      /\ \A g : OnOf(Rest, g) = OnOf(S, g)
  BY <1>3 DEF SameSight, LooseOf, OnOf
<1>5. Become(Rest) => Promised
  BY <1>2, <1>3, StutterStep DEF Promised
<1>6. ASSUME NEW w \in Windows, HandleMapRequest(w)
      PROVE  Promised
  <2>1. PICK hint \in {"none", "Normal", "Iconic"}, atoms \in SUBSET Atoms :
          Become(MapRequested(Rest, w, hint, atoms))
    BY <1>6 DEF HandleMapRequest
  <2> DEFINE t == MapRequested(Rest, w, hint, atoms)
  <2>2. PICK N : Fine(t, N, N)
    BY <1>2, MapRequestedFine
  <2>3. \/ SameSight(Rest, t) \/ Showed(Rest, t, w)
        \/ \E g \in Groups : Opened(Rest, t, w, g)
    BY <1>2, MapRequestedSeen
  <2>4. t \in State /\ Become(t)
    BY <2>1, <2>2, KnownType DEF Fine
  <2> HIDE DEF t, M
  <2>5. \/ SameSight(S, t) \/ Showed(S, t, w)
        \/ \E g \in Groups : Opened(S, t, w, g)
    BY <1>3, <1>4, <2>3 DEF SameSight, Showed, Opened
  <2>6. UNCHANGED D!dvars \/ D!ShowOne(w) \/ \E g \in Groups : D!Open(w, g)
    BY <2>4, <2>5, StutterStep, ShowOneStep, OpenStep
  <2> QED
    BY <1>6, <2>6 DEF Promised, Asked
<1>7. ASSUME NEW w \in Windows, HandleUnmapNotify(w) \/ HandleDestroyNotify(w)
      PROVE  Promised
  <2>1. Become(Rest) \/ (w \in M /\ Become(Delete(Rest, w)))
    BY <1>7 DEF HandleUnmapNotify, HandleDestroyNotify
  <2>2. CASE w \in M /\ Become(Delete(Rest, w))
    <3> DEFINE t == Delete(Rest, w)
    <3>1. Fine(t, M \ {w}, M \ {w})
      BY <1>2, <2>2, DeleteFine
    <3>2. t \in State
      BY <3>1, KnownType DEF Fine
    <3>3. /\ DeskOf(t) = [DeskOf(Rest) EXCEPT ![w] = NoGroup]
          /\ StickyOf(t) = StickyOf(Rest) \ {w}
          /\ ShownOf(t) = ShownOf(Rest) \ {w}
          /\ t.group_current = Rest.group_current
          /\ KeepsFocus(Rest, t)
      BY <1>2, <2>2, DeleteSeen
    <3>4. Become(t)
      BY <2>2
    <3> HIDE DEF t
    <3>5. D!Close(w)
      BY <1>3, <3>2, <3>3, <3>4, CloseStep DEF SameSight, KeepsFocus
    <3> QED
      BY <1>7, <3>5 DEF Promised, Asked
  <2> QED
    BY <1>5, <2>1, <2>2
<1>8. ASSUME NEW w \in Windows, HandleSendUnmap(w)
      PROVE  Promised
  <2> DEFINE p == SetProperty(S, Rest.wm_state, {w}, "Withdrawn")
             t == [Rest EXCEPT !.wm_state = p]
  <2>1. Become(Rest) \/ Become(t)
    <3>1. [Rest EXCEPT !.wm_state = SetProperty(S, @, {w}, "Withdrawn")] = t
      BY <1>2 DEF State
    <3> HIDE DEF t
    <3> QED
      BY <1>8, <3>1 DEF HandleSendUnmap
  <2> HIDE DEF p
  <2>2. /\ t.clientq = Rest.clientq /\ t.group = Rest.group
        /\ t.flags = Rest.flags /\ t.group_current = Rest.group_current
        /\ t.curcc = Rest.curcc
    BY <1>2 DEF State
  <2> HIDE DEF t
  <2>3. CASE Become(t)
    <3>1. UNCHANGED <<clientq, flags, group, group_current, curcc>>
      <4>1. /\ Rest.clientq = clientq /\ Rest.group = group
            /\ Rest.flags = flags /\ Rest.group_current = group_current
            /\ Rest.curcc = curcc
        BY DEF Rest, S
      <4> QED
        BY <2>2, <2>3, <4>1 DEF Become
    <3> QED
      BY <3>1 DEF Promised, D!dvars
  <2> QED
    BY <1>5, <2>1, <2>3
<1> QED
  BY <1>6, <1>7, <1>8 DEF Structure

\* The pointer moves the focus.
LEMMA PointerSeen ==
  ASSUME Tidy, FInv, Pointer
  PROVE  Promised
<1> DEFINE M == Managed(S)
<1>1. S \in State /\ Fine(S, M, M) /\ M \subseteq Windows
  BY CurrentFine, Current
<1>2. ASSUME HandleEnterRoot
      PROVE  D!Focus
  <2>1. /\ clientq' = clientq /\ group' = group /\ group_current' = group_current
        /\ curcc' = NoClient /\ flags' = [flags EXCEPT ![curcc] = @ \ {"ACTIVE"}]
    BY <1>2 DEF HandleEnterRoot, Become, None, S
  <2>2. \A w \in Windows : /\ "STICKY" \in flags'[w] <=> "STICKY" \in flags[w]
                           /\ "HIDDEN" \in flags'[w] <=> "HIDDEN" \in flags[w]
    BY <1>1, <2>1 DEF State, S, Clients
  <2>3. ToSet(clientq) \subseteq Windows
    BY <1>1 DEF Managed, S
  <2> QED
    BY <2>1, <2>2, <2>3 DEF D!Focus
<1>3. ASSUME NEW w \in Windows, HandleEnter(w)
      PROVE  D!Focus
  <2> DEFINE t == SetActive(S, w)
  <2>1. w \in M /\ Become(t)
    BY <1>3 DEF HandleEnter
  <2>2. Fine(t, M, M)
    BY <1>1, <2>1, SetActiveFine
  <2>3. t \in State
    BY <2>2, KnownType DEF Fine
  <2>4. /\ DeskOf(t) = DeskOf(S) /\ StickyOf(t) = StickyOf(S)
        /\ ShownOf(t) = ShownOf(S) /\ t.group_current = S.group_current
        /\ t.curcc \in ShownOf(S) \cup {NoClient}
    BY <1>1, <2>1, SetActiveSeen
  <2> HIDE DEF t
  <2> QED
    BY <2>1, <2>3, <2>4, FocusStep
<1>4. D!Focus
  BY <1>2, <1>3 DEF Pointer
<1> QED
  BY <1>4 DEF Promised, Asked

\* client_hide of one window.
LEMMA HideStep ==
  ASSUME Tidy, FInv, NEW w \in Managed(S), Become(Hide(S, w))
  PROVE  D!HideOne(w)
<1> DEFINE M == Managed(S)
           t == Hide(S, w)
<1>1. Fine(S, M, M) /\ w \in M /\ M \subseteq Windows
  BY CurrentFine
<1> HIDE DEF M
<1>2. Fine(t, M, M)
  BY <1>1, HideAllFine DEF Hide
<1>3. t \in State
  BY <1>2, KnownType DEF Fine
<1>4. /\ DeskOf(t) = DeskOf(S) /\ StickyOf(t) = StickyOf(S)
      /\ ShownOf(t) = ShownOf(S) \ ({w} \ StickyOf(S))
      /\ t.group_current = S.group_current /\ KeepsFocus(S, t)
  <2>1. {w} \in SUBSET M
    BY <1>1
  <2> QED
    BY <1>1, <2>1, HideAllSeen DEF Hide
<1> HIDE DEF t
<1> QED
  BY <1>1, <1>3, <1>4, HideOneStep DEF t

\* group_movetogroup of one window: a group of which no window is in sight hides
\* it.
LEMMA MoveStep ==
  ASSUME Tidy, FInv, NEW w \in Managed(S), NEW g \in Groups,
         Become(MoveToGroup(S, w, g))
  PROVE  \/ UNCHANGED D!dvars
         \/ D!Join(w, g) /\ (HoldsOnlyHidden(S, g) => D!Send(w, g))
<1> DEFINE M == Managed(S)
           t == MoveToGroup(S, w, g)
<1>1. Fine(S, M, M) /\ w \in M /\ w \in Windows
  BY CurrentFine
<1>2. HoldsOnlyHidden(S, g) => OnOf(S, g) \cap LooseOf(S) \cap ShownOf(S) = {}
  <2>1. S.members[g] = OnOf(S, g) /\ LooseOf(S) = M \ StickyOf(S) /\ M \subseteq Windows
    BY <1>1, Sight
  <2> QED
    BY <2>1 DEF HoldsOnlyHidden, Has, StickyOf, ShownOf
<1> HIDE DEF M
<1>3. Fine(t, M, M)
  BY <1>1, MoveToGroupFine
<1>4. t \in State
  BY <1>3, KnownType DEF Fine
<1>5. SameSight(S, t) \/ Joins(S, t, w, g)
  <2>1. DeskOf(S)[w] = S.group[w]
    BY <1>1, Sight
  <2>2. DeskOf(S)[w] = g => t = S
    BY <2>1 DEF MoveToGroup
  <2>3. DeskOf(S)[w] # g => Joins(S, t, w, g)
    BY <1>1, MoveToGroupSeen
  <2> HIDE DEF t
  <2> QED
    BY <2>2, <2>3 DEF SameSight
<1>6. Become(t)
  OBVIOUS
<1> HIDE DEF t
<1>7. CASE SameSight(S, t)
  BY <1>4, <1>6, <1>7, StutterStep
<1>8. CASE Joins(S, t, w, g)
  BY <1>1, <1>2, <1>4, <1>6, <1>8, JoinStep, SendStep
<1> QED
  BY <1>5, <1>7, <1>8

\* client_toggle_sticky of one window.
LEMMA ToggleStickyStep ==
  ASSUME Tidy, FInv, NEW w \in Managed(S), Become(ToggleSticky(S, w))
  PROVE  D!Stick(w) \/ D!Unstick(w)
<1> DEFINE M == Managed(S)
           t == ToggleSticky(S, w)
<1>1. Fine(S, M, M) /\ w \in M /\ w \in Windows /\ LooseOf(S) = M \ StickyOf(S)
  BY CurrentFine, Sight
<1> HIDE DEF M
<1>2. Fine(t, M, M)
  BY <1>1, ToggleStickyFine
<1>3. t \in State
  BY <1>2, KnownType DEF Fine
<1>4. /\ IF w \in StickyOf(S)
           THEN /\ StickyOf(t) = StickyOf(S) \ {w}
                /\ DeskOf(t) = [DeskOf(S) EXCEPT ![w] = S.group_current]
           ELSE /\ StickyOf(t) = StickyOf(S) \cup {w}
                /\ DeskOf(t) = DeskOf(S)
      /\ ShownOf(t) = ShownOf(S)
      /\ t.group_current = S.group_current /\ t.curcc = S.curcc
  BY <1>1, ToggleStickySeen
<1>5. Become(t)
  OBVIOUS
<1> HIDE DEF t
<1>6. CASE w \in StickyOf(S)
  BY <1>1, <1>3, <1>4, <1>5, <1>6, UnstickStep
<1>7. CASE w \notin StickyOf(S)
  BY <1>1, <1>3, <1>4, <1>5, <1>7, StickStep
<1> QED
  BY <1>6, <1>7

\* group_toggle_membership_enter of one window.
LEMMA ToggleMembershipStep ==
  ASSUME Tidy, FInv, NEW w \in Managed(S), Become(ToggleMembership(S, w))
  PROVE  D!Toggle(w)
<1> DEFINE M == Managed(S)
           g == IF S.group[w] = S.group_current THEN FirstGroup
                                                ELSE S.group_current
           t == AssignAll(S, {w}, g)
<1>1. /\ Fine(S, M, M) /\ w \in M /\ w \in Windows
      /\ DeskOf(S)[w] = S.group[w] /\ DeskOf(S)[w] # NoGroup
      /\ S.group_current \in Groups /\ FirstGroup \in Groups
  BY CurrentFine, Sight
<1> HIDE DEF M
<1>2. ToggleMembership(S, w) = t /\ g \in Groups
  BY <1>1 DEF ToggleMembership, Assign
<1>3. g = IF DeskOf(S)[w] = S.group_current THEN FirstGroup ELSE S.group_current
  BY <1>1
<1> HIDE DEF g
<1>4. Fine(t, M, M) /\ {w} \in SUBSET M
  BY <1>1, <1>2, ReassignFine
<1>5. t \in State
  BY <1>4, KnownType DEF Fine
<1>6. /\ DeskOf(t) = [v \in Windows |-> IF v \in {w} THEN g ELSE DeskOf(S)[v]]
      /\ StickyOf(t) = StickyOf(S) /\ ShownOf(t) = ShownOf(S)
      /\ t.group_current = S.group_current /\ t.curcc = S.curcc
  BY <1>1, <1>2, <1>4, AssignAllSeen
<1>7. Become(t)
  BY <1>2
<1> HIDE DEF t
<1>8. DeskOf(t) = [DeskOf(S) EXCEPT ![w] = g]
  BY <1>1, <1>6 DEF DeskOf
<1> QED
  BY <1>1, <1>3, <1>5, <1>6, <1>7, <1>8, ToggleStep

\* group_show and group_hide, with or without a change of GROUP_HIDDEN.
LEMMA GroupShowStep ==
  ASSUME Tidy, FInv, NEW g \in Groups, NEW t \in State, Become(t),
         SameSight(GroupShow(S, g), t)
  PROVE  D!ShowGroup(g)
<1> DEFINE M == Managed(S)
           u == GroupShow(S, g)
<1>1. Fine(S, M, M)
  BY CurrentFine
<1>2. /\ DeskOf(u) = [w \in Windows |-> IF w \in StickyOf(S) THEN g
                                        ELSE DeskOf(S)[w]]
      /\ StickyOf(u) = StickyOf(S)
      /\ ShownOf(u) = ShownOf(S) \cup (OnOf(S, g) \cap LooseOf(S))
      /\ u.group_current = S.group_current /\ u.curcc = S.curcc
  BY <1>1, GroupShowSeen
<1> HIDE DEF u
<1> QED
  BY <1>2, ShowGroupStep DEF SameSight, u

\* group_hide of a group is one hide of the desktop.
LEMMA GroupHideStep ==
  ASSUME Tidy, FInv, NEW g \in Groups, NEW t \in State, Become(t),
         SameSight(GroupHide(S, g), t)
  PROVE  D!HideGroup(g)
<1> DEFINE M == Managed(S)
           u == GroupHide(S, g)
<1>1. Fine(S, M, M)
  BY CurrentFine
<1>2. /\ DeskOf(u) = DeskOf(S) /\ StickyOf(u) = StickyOf(S)
      /\ ShownOf(u) = ShownOf(S) \ (OnOf(S, g) \cap LooseOf(S))
      /\ u.group_current = S.group_current
      /\ KeepsFocus(S, u)
  BY <1>1, GroupHideSeen
<1> HIDE DEF u
<1> QED
  BY <1>2, HideGroupStep DEF SameSight, KeepsFocus, u

\* group_only of a group.
LEMMA GroupOnlyStep ==
  ASSUME Tidy, FInv, NEW g \in Groups, Become(GroupOnly(S, g))
  PROVE  D!Switch(g)
<1> DEFINE M == Managed(S)
           t == GroupOnly(S, g)
<1>1. Fine(S, M, M)
  BY CurrentFine
<1>2. Fine(t, M, M)
  BY <1>1, GroupOnlyFine
<1>3. t \in State
  BY <1>2, KnownType DEF Fine
<1>4. /\ DeskOf(t) = [w \in Windows |-> IF w \in StickyOf(S) THEN g
                                        ELSE DeskOf(S)[w]]
      /\ StickyOf(t) = StickyOf(S)
      /\ ShownOf(t) = (ShownOf(S) \cap StickyOf(S)) \cup (OnOf(S, g) \cap LooseOf(S))
      /\ t.group_current = g
      /\ KeepsFocus(S, t)
  BY <1>1, GroupOnlySeen
<1>5. Become(t)
  OBVIOUS
<1> HIDE DEF t
<1> QED
  BY <1>3, <1>4, <1>5, SwitchStep

\* group_alltoggle.
LEMMA AllToggleStep ==
  ASSUME Tidy, FInv, Become(GroupAllToggle(S))
  PROVE  D!HideAll \/ D!ShowAll
<1> DEFINE M == Managed(S)
           t == GroupAllToggle(S)
<1>1. Fine(S, M, M)
  BY CurrentFine
<1>2. Fine(t, M, M)
  BY <1>1, GroupAllToggleFine
<1>3. t \in State
  BY <1>2, KnownType DEF Fine
<1>4. /\ StickyOf(t) = StickyOf(S) /\ t.group_current = S.group_current
      /\ \/ /\ DeskOf(t) = DeskOf(S)
            /\ ShownOf(t) = ShownOf(S) \cap StickyOf(S)
            /\ KeepsFocus(S, t)
         \/ /\ ShownOf(t) = ShownOf(S) \cup LooseOf(S)
            /\ t.curcc = S.curcc
            /\ \/ DeskOf(t) = DeskOf(S)
               \/ \E g \in Groups :
                    DeskOf(t) = [w \in Windows |-> IF w \in StickyOf(S) THEN g
                                                   ELSE DeskOf(S)[w]]
  BY <1>1, AllToggleSeen
<1>5. Become(t)
  OBVIOUS
<1> HIDE DEF t
<1> QED
  BY <1>3, <1>4, <1>5, HideAllStep, ShowAllStep

\* The menu of hidden windows shows what it is asked for, unless it is sticky.
LEMMA UnhiddenStep ==
  ASSUME Tidy, FInv, NEW w \in Managed(S), Become(Unhidden(w))
  PROVE  UNCHANGED D!dvars \/ D!ShowOne(w)
<1> DEFINE M == Managed(S)
           u == Unhide(S, w)
           t == PtrWarp(u, w)
<1>1. /\ Fine(S, M, M) /\ w \in M /\ w \in Windows /\ {w} \in SUBSET M
      /\ LooseOf(S) = M \ StickyOf(S)
  BY CurrentFine, Sight
<1> HIDE DEF M
<1>2. Fine(u, M, M)
  BY <1>1, UnhideAllFine DEF Unhide
<1>3. /\ DeskOf(u) = DeskOf(S) /\ StickyOf(u) = StickyOf(S)
      /\ ShownOf(u) = ShownOf(S) \cup ({w} \ StickyOf(S))
      /\ u.group_current = S.group_current /\ u.curcc = S.curcc
  BY <1>1, UnhideAllSeen DEF Unhide
<1>4. Become(t)
  BY DEF Unhidden
<1> HIDE DEF u
<1>5. Fine(t, M, M)
  BY <1>1, <1>2, PtrWarpFine
<1>6. t \in State
  BY <1>5, KnownType DEF Fine
<1>7. /\ DeskOf(t) = DeskOf(u) /\ StickyOf(t) = StickyOf(u)
      /\ ShownOf(t) = ShownOf(u) \cup ({w} \ StickyOf(u))
      /\ t.group_current = u.group_current /\ t.curcc = u.curcc
  BY <1>1, <1>2, PtrWarpSeen
<1> HIDE DEF t
<1>8. ShownOf(t) = ShownOf(S) \cup ({w} \ StickyOf(S))
  BY <1>3, <1>7
<1>9. CASE w \in StickyOf(S)
  <2>1. SameSight(S, t)
    BY <1>3, <1>7, <1>8, <1>9 DEF SameSight
  <2> QED
    BY <1>4, <1>6, <2>1, StutterStep
<1>10. CASE w \notin StickyOf(S)
  <2>1. Showed(S, t, w)
    BY <1>1, <1>3, <1>7, <1>8, <1>10 DEF Showed
  <2> QED
    BY <1>1, <1>4, <1>6, <2>1, ShowOneStep
<1> QED
  BY <1>9, <1>10

\* The search shows a window and hides the group that was current: as it should
\* when the window is in another group, and with the window when it is not.
LEMMA SearchStep ==
  ASSUME Tidy, FInv, NEW w \in Windows, Search(w)
  PROVE  \/ D!Find(w)
         \/ \E g \in Groups : g = group[w] /\ g = group_current /\ D!HideGroup(g)
<1> DEFINE M == Managed(S)
           u == IF Has(S, w, "HIDDEN") THEN Unhide(S, w) ELSE S
           t == PtrWarp(u, w)
           v == GroupHide(t, t.group_current)
           x == GroupSetActive(v, t.group[w])
<1>1. w \in M /\ Become(x)
  BY DEF Search, Handle
<1>2. /\ Fine(S, M, M) /\ {w} \in SUBSET M /\ DeskOf(S)[w] # NoGroup
      /\ LooseOf(S) = M \ StickyOf(S) /\ ToSet(S.clientq) = M
  BY <1>1, CurrentFine, Sight
<1> HIDE DEF M
<1>3. /\ DeskOf(u) = DeskOf(S) /\ StickyOf(u) = StickyOf(S)
      /\ ShownOf(u) = ShownOf(S) \cup ({w} \ StickyOf(S))
      /\ u.group_current = S.group_current /\ u.curcc = S.curcc
      /\ Fine(u, M, M)
  <2>1. CASE Has(S, w, "HIDDEN")
    <3>1. u = Unhide(S, w)
      BY <2>1
    <3> HIDE DEF u
    <3> QED
      BY <1>2, <3>1, UnhideAllSeen, UnhideAllFine DEF Unhide
  <2>2. CASE ~Has(S, w, "HIDDEN")
    <3>1. u = S
      BY <2>2
    <3> HIDE DEF u
    <3>2. w \in ShownOf(S)
      BY <1>1, <1>2, <2>2 DEF ShownOf, Has
    <3> QED
      BY <1>2, <3>1, <3>2
  <2> QED
    BY <2>1, <2>2
<1> HIDE DEF u
<1>4. /\ DeskOf(t) = DeskOf(u) /\ StickyOf(t) = StickyOf(u)
      /\ ShownOf(t) = ShownOf(u) \cup ({w} \ StickyOf(u))
      /\ t.group_current = u.group_current /\ t.curcc = u.curcc
      /\ Fine(t, M, M)
  BY <1>1, <1>3, PtrWarpSeen, PtrWarpFine
<1> HIDE DEF t
<1>5. /\ t.group_current \in Groups /\ t.group[w] \in Groups
      /\ t.group[w] = DeskOf(t)[w]
  <2>1. /\ t.group_current \in Groups /\ DeskOf(t)[w] \in Groups
        /\ DeskOf(t)[w] = t.group[w]
    BY <1>1, <1>4, Sight
  <2> QED
    BY <2>1
<1>6. /\ DeskOf(v) = DeskOf(t) /\ StickyOf(v) = StickyOf(t)
      /\ ShownOf(v) = ShownOf(t) \ (OnOf(t, t.group_current) \cap LooseOf(t))
      /\ v.group_current = t.group_current /\ KeepsFocus(t, v)
      /\ Fine(v, M, M)
  BY <1>4, <1>5, GroupHideSeen, GroupHideFine
<1> HIDE DEF v
<1>7. v \in State
  BY <1>6, KnownType DEF Fine
<1>8. /\ DeskOf(x) = DeskOf(v) /\ StickyOf(x) = StickyOf(v)
      /\ ShownOf(x) = ShownOf(v) /\ x.curcc = v.curcc
      /\ x.group_current = t.group[w]
  BY <1>7 DEF GroupSetActive, State, DeskOf, StickyOf, ShownOf
<1>9. Fine(x, M, M)
  BY <1>5, <1>6, GroupSetActiveFine
<1>10. x \in State
  BY <1>9, KnownType DEF Fine
<1> HIDE DEF x
<1>11. OnOf(t, t.group_current) = OnOf(S, S.group_current) /\ LooseOf(t) = LooseOf(S)
  BY <1>3, <1>4 DEF OnOf, LooseOf
<1>12. /\ {w} \cap LooseOf(S) = {w} \ StickyOf(S)
       /\ ShownOf(x) = (ShownOf(S) \cup ({w} \cap LooseOf(S)))
                         \ (OnOf(S, S.group_current) \cap LooseOf(S))
  <2>1. {w} \cap LooseOf(S) = {w} \ StickyOf(S)
    BY <1>1, <1>2
  <2> QED
    BY <1>3, <1>4, <1>6, <1>8, <1>11, <2>1
<1>13. KeepsFocus(S, x)
  BY <1>3, <1>4, <1>6, <1>8 DEF KeepsFocus
<1>14. DeskOf(x) = DeskOf(S) /\ StickyOf(x) = StickyOf(S)
       /\ x.group_current = DeskOf(S)[w]
  BY <1>3, <1>4, <1>5, <1>6, <1>8
<1>15. CASE DeskOf(S)[w] # S.group_current
  BY <1>1, <1>2, <1>10, <1>12, <1>13, <1>14, <1>15, FindStep
<1>16. CASE DeskOf(S)[w] = S.group_current
  <2>1. ShownOf(x) = ShownOf(S) \ (OnOf(S, S.group_current) \cap LooseOf(S))
    <3>1. w \in OnOf(S, S.group_current)
      BY <1>16 DEF OnOf
    <3> QED
      BY <1>12, <3>1
  <2>2. S.group_current \in Groups /\ group[w] = group_current
    <3>1. /\ S.group_current \in Groups /\ S.group_current = group_current
          /\ S.group = group /\ DeskOf(S)[w] = S.group[w]
      BY <1>1, <1>2, Sight DEF S
    <3> QED
      BY <1>16, <3>1
  <2>3. PICK g \in Groups : g = S.group_current
    BY <2>2
  <2>4. D!HideGroup(g)
    BY <1>1, <1>10, <1>13, <1>14, <1>16, <2>1, <2>3, HideGroupStep
  <2>5. g = group[w] /\ g = group_current
    BY <2>2, <2>3 DEF S
  <2> QED
    BY <2>4, <2>5
<1> QED
  BY <1>15, <1>16

\* The commands of kbfunc.c and mousefunc.c.
LEMMA CommandSeen ==
  ASSUME Tidy, FInv, Command
  PROVE  Promised
<1> DEFINE M == Managed(S)
<1>1. /\ Fine(S, M, M) /\ M \subseteq Windows /\ M = Managed(S)
      /\ Clients = Windows /\ Pointed \subseteq M /\ Targets \subseteq M
      /\ \A g \in Groups : SameSight(GroupShow(S, g), GroupShow(S, g))
      /\ \A g \in Groups : SameSight(GroupHide(S, g), GroupHide(S, g))
  BY CurrentFine, TargetsKnown DEF Clients, Tidy, SameSight
<1> HIDE DEF M
<1>2. S.group_current \in Groups /\ S.group_current = group_current
  BY <1>1, Sight DEF S
<1>3. ASSUME NEW g \in Groups
      PROVE  Become(GroupShow(S, g)) \/ Become(GroupHide(S, g))
               => D!ShowGroup(g) \/ D!HideGroup(g)
  <2>1. GroupShow(S, g) \in State /\ GroupHide(S, g) \in State
    BY <1>1, GroupShowFine, GroupHideFine, KnownType DEF Fine
  <2> QED
    BY <1>1, <2>1, GroupShowStep, GroupHideStep
<1>4. ASSUME NEW c \in Clients, KbHide(c) \/ KbToggleSticky(c) \/ KbGroupToggle(c)
      PROVE  Promised
  <2>1. c \in Windows
    BY <1>1
  <2>2. CASE KbHide(c)
    <3>1. D!HideOne(c)
      BY <1>1, <2>2, HideStep DEF KbHide, Handle
    <3> QED
      BY <2>1, <2>2, <3>1 DEF Promised, Asked
  <2>3. CASE KbToggleSticky(c)
    <3>1. D!Stick(c) \/ D!Unstick(c)
      BY <1>1, <2>3, ToggleStickyStep DEF KbToggleSticky, Handle
    <3> QED
      BY <2>1, <2>3, <3>1 DEF Promised, Asked
  <2>4. CASE KbGroupToggle(c)
    <3>1. D!Toggle(c)
      BY <1>1, <2>4, ToggleMembershipStep DEF KbGroupToggle, Handle
    <3> QED
      BY <2>1, <2>4, <3>1 DEF Promised, Asked
  <2> QED
    BY <1>4, <2>2, <2>3, <2>4
<1>5. ASSUME NEW c \in Clients, NEW g \in Groups, KbMoveToGroup(c, g)
      PROVE  Promised
  <2>1. c \in Managed(S) /\ c \in Windows /\ Become(MoveToGroup(S, c, g))
    BY <1>1, <1>5 DEF KbMoveToGroup, Handle
  <2>2. \/ UNCHANGED D!dvars
        \/ D!Join(c, g) /\ (HoldsOnlyHidden(S, g) => D!Send(c, g))
    BY <2>1, MoveStep
  <2>3. CASE D!Send(c, g)
    BY <1>5, <2>1, <2>3 DEF Promised, Asked
  <2>4. CASE D!Join(c, g) /\ ~HoldsOnlyHidden(S, g)
    BY <1>5, <2>1, <2>4 DEF Promised, Departs
  <2>5. CASE UNCHANGED D!dvars
    BY <2>5 DEF Promised
  <2> QED
    BY <2>2, <2>3, <2>4, <2>5
<1>6. ASSUME NEW g \in Groups, KbGroup(g)
      PROVE  Promised
  <2> DEFINE t == GroupShow(S, g)
             u == GroupHide(S, g)
             x == [t EXCEPT !.hidden_groups = @ \ {g}]
             y == [u EXCEPT !.hidden_groups = @ \cup {g}]
  <2>1. Become(IF g \in S.hidden_groups THEN x ELSE y)
    BY <1>6 DEF KbGroup, Handle, GroupHideToggle
  <2>2. t \in State /\ u \in State
    BY <1>1, GroupShowFine, GroupHideFine, KnownType DEF Fine
  <2> HIDE DEF t, u
  <2>3. t.hidden_groups \ {g} \subseteq Groups /\ u.hidden_groups \cup {g} \subseteq Groups
    BY <2>2 DEF State
  <2>4. x \in State /\ y \in State
    BY <2>2, <2>3 DEF State
  <2>5. SameSight(t, x) /\ SameSight(u, y)
    <3>1. /\ x.clientq = t.clientq /\ x.group = t.group /\ x.flags = t.flags
          /\ x.group_current = t.group_current /\ x.curcc = t.curcc
      BY <2>2 DEF State
    <3>2. /\ y.clientq = u.clientq /\ y.group = u.group /\ y.flags = u.flags
          /\ y.group_current = u.group_current /\ y.curcc = u.curcc
      BY <2>2 DEF State
    <3> HIDE DEF x, y
    <3> QED
      BY <3>1, <3>2 DEF SameSight, DeskOf, StickyOf, ShownOf
  <2> HIDE DEF x, y
  <2>6. ASSUME Become(x)
        PROVE  D!ShowGroup(g)
    BY <2>4, <2>5, <2>6, GroupShowStep DEF t
  <2>7. ASSUME Become(y)
        PROVE  D!HideGroup(g)
    BY <2>4, <2>5, <2>7, GroupHideStep DEF u
  <2>8. D!ShowGroup(g) \/ D!HideGroup(g)
    BY <2>1, <2>6, <2>7
  <2> QED
    BY <1>6, <2>8 DEF Promised, Asked
<1>7. ASSUME NEW g \in Groups, KbGroupOnly(g)
      PROVE  Promised
  <2>1. D!Switch(g)
    BY <1>7, GroupOnlyStep DEF KbGroupOnly, Handle
  <2> QED
    BY <1>7, <2>1 DEF Promised, Asked
<1>8. ASSUME NEW g \in Groups, MenuGroup(g) \/ MouseMenuGroup(g)
      PROVE  Promised
  <2>1. Become(GroupShow(S, g)) \/ Become(GroupHide(S, g))
    BY <1>8 DEF MenuGroup, MouseMenuGroup, Handle
  <2>2. D!ShowGroup(g) \/ D!HideGroup(g)
    BY <1>3, <2>1
  <2> QED
    BY <1>8, <2>2 DEF Promised, Asked
<1>9. ASSUME NEW dir \in {1, -1}, KbCycleGroup(dir)
      PROVE  Promised
  <2>1. S \in State
    BY <1>1, KnownType DEF Fine
  <2>2. PICK g \in Groups : g = (S.group_current + dir) % NGROUPS
    BY <2>1, CycleGroupType
  <2>3. D!Switch(g)
    BY <1>9, <2>2, GroupOnlyStep DEF KbCycleGroup, CycleGroup, Handle
  <2>4. g = (group_current + dir) % NGROUPS
    BY <1>2, <2>2
  <2> QED
    BY <1>9, <2>3, <2>4 DEF Promised, Asked
<1>10. ASSUME NEW dir \in {1, -1}, NEW b \in BOOLEAN, KbCycle(dir, b)
       PROVE  Promised
  <2> DEFINE t == Cycle(S, dir, b)
  <2>1. t \in State
    BY <1>1, CycleFine, KnownType DEF Fine
  <2>2. Become(t)
    BY <1>10 DEF KbCycle, Handle
  <2>3. SameSight(S, t)
    BY <1>1, CycleSeen
  <2> HIDE DEF t
  <2> QED
    BY <2>1, <2>2, <2>3, StutterStep DEF Promised
<1>11. CASE KbNoGroup
  <2>1. D!HideAll \/ D!ShowAll
    BY <1>11, AllToggleStep DEF KbNoGroup, Handle
  <2> QED
    BY <1>11, <2>1 DEF Promised, Asked
<1>12. CASE KeyRelease
  <2> DEFINE t == CycleLeave(S)
  <2>1. t \in State
    BY <1>1, CycleLeaveFine, KnownType DEF Fine
  <2>2. Become(t) /\ SameSight(S, t)
    BY <1>1, <1>12, CycleLeaveSeen DEF KeyRelease, Handle
  <2> HIDE DEF t
  <2> QED
    BY <2>1, <2>2, StutterStep DEF Promised
<1>13. ASSUME NEW w \in Windows, MenuUnhide(w)
       PROVE  Promised
  <2>1. UNCHANGED D!dvars \/ D!ShowOne(w)
    BY <1>13, UnhiddenStep DEF MenuUnhide, Handle
  <2> QED
    BY <1>13, <2>1 DEF Promised, Asked
<1>14. ASSUME NEW w \in Windows, Search(w)
       PROVE  Promised
  <2>1. \/ D!Find(w)
        \/ \E g \in Groups : g = group[w] /\ g = group_current /\ D!HideGroup(g)
    BY <1>14, SearchStep
  <2>2. CASE D!Find(w)
    BY <1>14, <2>2 DEF Promised, Asked
  <2>3. CASE \E g \in Groups : g = group[w] /\ g = group_current /\ D!HideGroup(g)
    BY <1>14, <2>3 DEF Promised, Departs
  <2> QED
    BY <2>1, <2>2, <2>3
<1>15. CASE \E c \in Clients : KbHide(c) \/ KbToggleSticky(c) \/ KbGroupToggle(c)
  BY <1>4, <1>15
<1>16. CASE \E g \in Groups : KbGroup(g) \/ KbGroupOnly(g)
                              \/ MenuGroup(g) \/ MouseMenuGroup(g)
  BY <1>6, <1>7, <1>8, <1>16
<1>17. CASE \E dir \in {1, -1} : KbCycleGroup(dir) \/ KbCycle(dir, TRUE)
                                                   \/ KbCycle(dir, FALSE)
  BY <1>9, <1>10, <1>17
<1> QED
  BY <1>5, <1>11, <1>12, <1>13, <1>14, <1>15, <1>16, <1>17 DEF Command

\* The messages of xev_handle_clientmessage, and WM_TRANSIENT_FOR.
LEMMA MessageSeen ==
  ASSUME Tidy, FInv, Message
  PROVE  Promised
<1> DEFINE M == Managed(S)
<1>1. Fine(S, M, M) /\ M = Managed(S)
  BY CurrentFine
<1> HIDE DEF M
<1>2. ASSUME NEW w \in Windows, MsgIconify(w)
      PROVE  Promised
  <2>1. D!HideOne(w)
    BY <1>2, HideStep DEF MsgIconify, Handle
  <2> QED
    BY <1>2, <2>1 DEF Promised, Asked
<1>3. ASSUME NEW w \in Windows, PropertyTransient(w)
      PROVE  Promised
  <2> DEFINE t == Transient(S, w)
  <2>1. w \in M /\ Become(t)
    BY <1>1, <1>3 DEF PropertyTransient, Handle
  <2>2. t \in State
    BY <1>1, <2>1, TransientFine, KnownType DEF Fine
  <2>3. SameSight(S, t) \/ \E g \in Groups : Joins(S, t, w, g)
    BY <1>1, <2>1, TransientSeen
  <2> HIDE DEF t
  <2>4. UNCHANGED D!dvars \/ \E g \in Groups : D!Join(w, g)
    BY <2>1, <2>2, <2>3, StutterStep, JoinStep
  <2> QED
    BY <1>3, <2>4 DEF Promised, Asked
<1>4. ASSUME NEW w \in Windows, NEW g \in Groups, MsgDesktop(w, g)
      PROVE  Promised
  <2>1. UNCHANGED D!dvars \/ D!Join(w, g)
    BY <1>4, MoveStep DEF MsgDesktop, Handle
  <2> QED
    BY <1>4, <2>1 DEF Promised, Asked
<1>5. ASSUME NEW w \in Windows, NEW action \in {"add", "remove", "toggle"},
             NEW atoms \in SUBSET Atoms, MsgState(w, action, atoms)
      PROVE  Promised
  <2>1. w \in Managed(S) /\ Become(NetWmState(S, w, action, atoms))
    BY <1>5 DEF MsgState, Handle
  <2>2. Become(S) \/ Become(ToggleSticky(S, w))
    BY <2>1, NetWmStateSeen
  <2>3. CASE Become(S)
    BY <1>1, <2>3, Sight, StutterStep DEF Promised, SameSight
  <2>4. CASE Become(ToggleSticky(S, w))
    <3>1. D!Stick(w) \/ D!Unstick(w)
      BY <2>1, <2>4, ToggleStickyStep
    <3>2. \E a \in {"add", "remove", "toggle"}, b \in SUBSET Atoms : MsgState(w, a, b)
      BY <1>5
    <3> QED
      BY <1>5, <3>1, <3>2 DEF Promised, Asked
  <2> QED
    BY <2>2, <2>3, <2>4
<1>6. ASSUME NEW g \in Groups, MsgCurrentDesktop(g)
      PROVE  Promised
  <2>1. D!Switch(g)
    BY <1>6, GroupOnlyStep DEF MsgCurrentDesktop, Handle
  <2> QED
    BY <1>6, <2>1 DEF Promised, Asked
<1> QED
  BY <1>2, <1>3, <1>4, <1>5, <1>6 DEF Message

\* Every step, and every stutter.
LEMMA NextSeen ==
  ASSUME Tidy, FInv, [Next]_vars
  PROVE  Promised
<1>1. CASE UNCHANGED vars
  BY <1>1 DEF vars, D!dvars, Promised
<1>2. CASE Next
  BY <1>2, AppSeen, StructureSeen, PointerSeen, CommandSeen, MessageSeen DEF Next
<1> QED
  BY <1>1, <1>2

\* Desktop starts as cwm does: nothing is managed.
LEMMA InitSeen ==
  ASSUME Tidy, Init
  PROVE  D!Init
<1>1. /\ clientq = <<>> /\ group_current = FirstGroup /\ curcc = NoClient
      /\ \A w \in Windows : flags[w] = {} /\ group[w] = NoGroup
  BY DEF Init, Clients
<1>2. ToSet(clientq) = {}
  BY <1>1 DEF ToSet
<1> QED
  BY <1>1, <1>2 DEF D!Init

----------------------------------------------------------------------------
(* The theorem.                                                            *)

\* Without _NET_WM_STATE_HIDDEN and phantoms every behaviour of cwm, those in
\* which commands race with unread events included, is one of Desktop, and every
\* handler and command takes the step it was asked for or one of the departures.
THEOREM CwmImplementsDesktop ==
  ASSUME Tidy
  PROVE  Spec => ImplementsDesktop
<1>1. Init => D!Init
  BY InitSeen
<1>2. FInv /\ [Next]_vars => [Asked \/ Departs]_(D!dvars)
  BY NextSeen DEF Promised
<1>3. FInv /\ [Next]_vars => [D!Next]_(D!dvars)
  BY <1>2, AskedIsNext
<1> QED
  BY <1>1, <1>2, <1>3, FineInvariant, PTL DEF Spec, ImplementsDesktop, D!Spec


----------------------------------------------------------------------------
(* Sticky windows.                                                         *)

\* What is sticky and mapped stays so.
Keeps(s, t) ==
  \A w \in Windows : "STICKY" \in s.flags[w] /\ s.mapped[w]
                       => "STICKY" \in t.flags[w] /\ t.mapped[w]

\* What is sticky and mapped stays mapped.
Stays(s, t) ==
  \A w \in Windows : "STICKY" \in s.flags[w] /\ s.mapped[w] => t.mapped[w]

\* client_hide returns early for a sticky client.
LEMMA HideAllKeeps ==
  ASSUME NEW s \in State, NEW W
  PROVE  Keeps(s, HideAll(s, W))
<1> DEFINE t == HideAll(s, W)
           L == {c \in W : ~Has(s, c, "STICKY")}
<1>1. /\ t.flags = Reflag(s.flags, L, {"ACTIVE"}, {"HIDDEN"})
      /\ t.mapped = [w \in Windows |-> s.mapped[w] /\ w \notin L]
  BY HideAllFields
<1> HIDE DEF t
<1>2. \A w \in Windows : "STICKY" \in s.flags[w] => w \notin L
  BY DEF Has
<1> HIDE DEF L
<1>3. Keeps(s, t)
  BY <1>1, <1>2 DEF Keeps, Reflag, Clients
<1> QED
  BY <1>3 DEF t

\* client_unhide unmaps nothing.
LEMMA UnhideAllKeeps ==
  ASSUME NEW s \in State, NEW W
  PROVE  Keeps(s, UnhideAll(s, W))
<1> DEFINE t == UnhideAll(s, W)
           L == {c \in W : ~Has(s, c, "STICKY")}
<1>1. /\ t.flags = Reflag(s.flags, L, {"HIDDEN"}, {})
      /\ t.mapped = [w \in Windows |->
                       s.mapped[w] \/ (w \in L /\ s.app[w] # "gone")]
  BY UnhideAllFields
<1> HIDE DEF t, L
<1>2. \A w \in Windows : "STICKY" \in s.flags[w] => "STICKY" \in t.flags[w]
  BY <1>1 DEF Reflag, Clients
<1>3. \A w \in Windows : s.mapped[w] => t.mapped[w]
  BY <1>1
<1> QED
  BY <1>2, <1>3 DEF Keeps, t

\* client_ptrwarp unmaps nothing.
LEMMA PtrWarpKeeps ==
  ASSUME NEW s \in State, NEW w
  PROVE  Keeps(s, PtrWarp(s, w))
BY UnhideAllKeeps DEF PtrWarp, Unhide, Keeps

\* group_assign maps and unmaps nothing.
LEMMA AssignAllKeeps ==
  ASSUME NEW s \in State, NEW W, NEW g
  PROVE  Keeps(s, AssignAll(s, W, g))
<1> DEFINE t == AssignAll(s, W, g)
<1>1. t.flags = s.flags
  BY DEF AssignAll, State
<1>2. t.mapped = s.mapped
  BY DEF AssignAll, State
<1> HIDE DEF t
<1>3. Keeps(s, t)
  BY <1>1, <1>2 DEF Keeps
<1> QED
  BY <1>3 DEF t

\* group_movetogroup hides through client_hide.
LEMMA MoveToGroupKeeps ==
  ASSUME NEW s \in State, NEW c \in Clients, NEW g
  PROVE  Keeps(s, MoveToGroup(s, c, g))
<1> DEFINE u == IF HoldsOnlyHidden(s, g) THEN Hide(s, c) ELSE s
           t == AssignAll(u, {c}, g)
<1>1. u \in State /\ Keeps(s, u)
  BY HideAllType, HideAllKeeps DEF Hide, Keeps
<1>2. MoveToGroup(s, c, g) = IF s.group[c] = g THEN s ELSE t
  BY DEF MoveToGroup, Assign
<1> HIDE DEF u
<1>3. Keeps(u, t)
  BY <1>1, AssignAllKeeps
<1> HIDE DEF t
<1> QED
  BY <1>1, <1>2, <1>3 DEF Keeps

\* group_hide hides no sticky client.
LEMMA GroupHideKeeps ==
  ASSUME NEW s \in State, NEW g \in Groups
  PROVE  Keeps(s, GroupHide(s, g)) /\ GroupHide(s, g) \in State
BY HideAllKeeps, HideAllType DEF GroupHide, State

\* group_show unmaps nothing, and the sticky clients it gathers stay sticky.
LEMMA GroupShowKeeps ==
  ASSUME NEW s \in State, NEW g \in Groups
  PROVE  Keeps(s, GroupShow(s, g)) /\ GroupShow(s, g) \in State
<1> DEFINE u == UnhideAll(s, s.members[g])
           t == AssignAll(u, StickyClients(u), g)
<1>1. s.members[g] \in SUBSET Clients
  BY DEF State
<1>2. u \in State /\ Keeps(s, u)
  BY <1>1, UnhideAllType, UnhideAllKeeps
<1>3. GroupShow(s, g) = t
  BY DEF GroupShow
<1> HIDE DEF u
<1>4. StickyClients(u) \in SUBSET Clients
  BY <1>2, ManagedType DEF StickyClients
<1>5. t \in State /\ Keeps(u, t)
  BY <1>2, <1>4, AssignAllType, AssignAllKeeps
<1> HIDE DEF t
<1> QED
  BY <1>2, <1>3, <1>5 DEF Keeps

\* group_setactive maps and unmaps nothing.
LEMMA GroupSetActiveKeeps ==
  ASSUME NEW s \in State, NEW g
  PROVE  Keeps(s, GroupSetActive(s, g))
BY DEF GroupSetActive, Keeps, State

\* group_hidetoggle.
LEMMA GroupHideToggleKeeps ==
  ASSUME NEW s \in State, NEW g \in Groups
  PROVE  Keeps(s, GroupHideToggle(s, g))
<1> DEFINE t == GroupShow(s, g)
           u == GroupHide(s, g)
<1>1. /\ t \in State /\ u \in State /\ Keeps(s, t) /\ Keeps(s, u)
  BY GroupShowKeeps, GroupHideKeeps
<1>2. GroupHideToggle(s, g) = IF g \in s.hidden_groups
                                THEN [t EXCEPT !.hidden_groups = @ \ {g}]
                                ELSE [u EXCEPT !.hidden_groups = @ \cup {g}]
  BY DEF GroupHideToggle
<1> HIDE DEF t, u
<1>3. /\ Keeps(s, [t EXCEPT !.hidden_groups = @ \ {g}])
      /\ Keeps(s, [u EXCEPT !.hidden_groups = @ \cup {g}])
  BY <1>1 DEF Keeps, State
<1> QED
  BY <1>2, <1>3

\* group_only.
LEMMA GroupOnlyKeeps ==
  ASSUME NEW s \in State, NEW g \in Groups
  PROVE  Keeps(s, GroupOnly(s, g))
<1> DEFINE W == UNION {s.members[h] : h \in Groups \ {g}}
           u == HideAll(s, W)
           v == GroupSetActive(u, g)
           t == GroupShow(v, g)
<1>1. W \in SUBSET Clients
  BY DEF State
<1>2. GroupOnly(s, g) = t
  BY DEF GroupOnly
<1> HIDE DEF W
<1>3. u \in State /\ Keeps(s, u)
  BY <1>1, HideAllType, HideAllKeeps
<1> HIDE DEF u
<1>4. v \in State /\ Keeps(u, v)
  BY <1>3, GroupSetActiveType, GroupSetActiveKeeps
<1> HIDE DEF v
<1>5. Keeps(v, t)
  BY <1>4, GroupShowKeeps
<1> HIDE DEF t
<1> QED
  BY <1>2, <1>3, <1>4, <1>5 DEF Keeps

\* group_alltoggle.
LEMMA AllToggleKeeps ==
  ASSUME NEW s, NEW M, NEW K, Good(s, M, K)
  PROVE  Keeps(s, GroupAllToggle(s))
<1> DEFINE all == UNION {s.members[g] : g \in Groups}
           r == [s EXCEPT !.hideall = ~@]
           h == HideAll(r, all)
           u == UnhideAll(r, all)
           t == GroupAllToggle(s)
<1>1. s \in State
  BY KnownType
<1>2. all \in SUBSET Clients
  BY <1>1 DEF State
<1>3. t = h \/ t = u \/ \E g \in Groups : t = AssignAll(u, StickyClients(u), g)
  BY AllToggleShape
<1> HIDE DEF all, t
<1>4. r \in State /\ Keeps(s, r)
  BY <1>1 DEF Keeps, State
<1> HIDE DEF r
<1>5. Keeps(r, h) /\ Keeps(r, u) /\ u \in State
  BY <1>2, <1>4, HideAllKeeps, UnhideAllKeeps, UnhideAllType
<1> HIDE DEF h, u
<1>6. \A g \in Groups : Keeps(u, AssignAll(u, StickyClients(u), g))
  BY <1>5, AssignAllKeeps
<1>7. Keeps(s, t)
  BY <1>3, <1>4, <1>5, <1>6 DEF Keeps
<1> QED
  BY <1>7 DEF t

\* client_cycle.
LEMMA CycleKeeps ==
  ASSUME NEW s \in State, NEW dir, NEW ingroup
  PROVE  Keeps(s, Cycle(s, dir, ingroup))
<1> DEFINE r == [s EXCEPT !.cycling = TRUE]
           t == PtrWarp(r, CycleTarget(s, dir, ingroup))
<1>1. Cycle(s, dir, ingroup)
        = IF s.clientq = <<>> \/ CycleTarget(s, dir, ingroup) = NoClient
            THEN s ELSE t
  BY DEF Cycle
<1>2. r \in State /\ Keeps(s, r) /\ Keeps(s, s)
  BY DEF Keeps, State
<1> HIDE DEF r
<1>3. Keeps(r, t)
  BY <1>2, PtrWarpKeeps
<1> HIDE DEF t
<1> QED
  BY <1>1, <1>2, <1>3 DEF Keeps

\* Operators that map and unmap nothing.
LEMMA SameMapped ==
  ASSUME NEW s \in State, NEW c \in Clients
  PROVE  /\ SetActive(s, c).mapped = s.mapped
         /\ CycleLeave(s).mapped = s.mapped
         /\ Delete(s, c).mapped = s.mapped
         /\ ToggleSticky(s, c).mapped = s.mapped
         /\ ToggleHidden(s, c).mapped = s.mapped
         /\ ToggleMembership(s, c).mapped = s.mapped
<1>1. SetActive(s, c).mapped = s.mapped
  BY DEF SetActive, MoveToFront, State
<1>2. CycleLeave(s).mapped = s.mapped
  BY DEF CycleLeave, MoveToFront, State
<1>3. Delete(s, c).mapped = s.mapped
  BY DEF Delete, ListClients, None, State
<1>4. ToggleSticky(s, c).mapped = s.mapped
  BY DEF ToggleSticky, Assign, AssignAll, State
<1>5. ToggleHidden(s, c).mapped = s.mapped
  BY DEF ToggleHidden, State
<1>6. ToggleMembership(s, c).mapped = s.mapped
  BY DEF ToggleMembership, Assign, AssignAll, State
<1> QED
  BY <1>1, <1>2, <1>3, <1>4, <1>5, <1>6

\* xev_handle_maprequest: client_init touches no window but the new one, which
\* is not sticky before.
LEMMA MapRequestedStays ==
  ASSUME NEW s, NEW M, Fine(s, M, M), NEW w \in Windows,
         NEW hint \in {"none", "Normal", "Iconic"}, NEW atoms \in SUBSET Atoms
  PROVE  Stays(s, MapRequested(s, w, hint, atoms))
<1>1. Managed(s) = M /\ s \in State /\ Good(s, M, M)
  BY KnownType DEF Good, Fine
<1>2. CASE w \notin M /\ s.app[w] = "gone"
  BY <1>1, <1>2 DEF MapRequested, Stays, State
<1>3. CASE w \in M
  <2>1. MapRequested(s, w, hint, atoms)
          = IF Has(s, w, "IGNORE") THEN s ELSE PtrWarp(s, w)
    BY <1>1, <1>3 DEF MapRequested
  <2> QED
    BY <1>1, <2>1, PtrWarpKeeps DEF Keeps, Stays
<1>4. CASE w \notin M /\ s.app[w] # "gone"
  <2> DEFINE t == ClientInit(s, w, hint, atoms)
             u == PtrWarp(t, w)
             N == M \cup {w}
  <2>1. Fine(t, N, N) /\ Only(s, t, w)
    BY <1>4, ClientInitFine, ClientInitOnly
  <2>2. MapRequested(s, w, hint, atoms) = IF Has(t, w, "IGNORE") THEN t ELSE u
    BY <1>1, <1>4 DEF MapRequested
  <2> HIDE DEF t
  <2>3. t \in State
    BY <2>1, KnownType DEF Fine
  <2>4. Only(t, u, w)
    BY <2>3, OnlyUnhide DEF PtrWarp, Only
  <2> HIDE DEF u
  <2>5. Only(s, u, w)
    BY <2>1, <2>4 DEF Only
  <2>6. s.flags[w] = {}
    BY <1>1, <1>4 DEF Good
  <2> QED
    BY <2>1, <2>2, <2>5, <2>6 DEF Only, Stays
<1> QED
  BY <1>2, <1>3, <1>4

\* A step of cwm, as a step of the model.
Unmapped(w) == Has(S, w, "STICKY") /\ mapped[w] /\ app'[w] = app[w] /\ ~mapped'[w]

\* A handler that leaves the sticky windows mapped is a step that does.
LEMMA StaysStep ==
  ASSUME NEW t, Become(t),
         Stays(S, t) \/ Keeps(S, t) \/ t.mapped = S.mapped
  PROVE  \A w \in Windows : ~Unmapped(w)
<1>1. mapped' = t.mapped /\ S.flags = flags /\ S.mapped = mapped
  BY DEF Become, S
<1> QED
  BY <1>1 DEF Stays, Keeps, Unmapped, Has

\* An application unmaps no window but by a change of its own state.
LEMMA AppStays ==
  ASSUME IInv, App
  PROVE  \A w \in Windows : ~Unmapped(w)
<1> SUFFICES ASSUME NEW v \in Windows, Unmapped(v)
             PROVE  FALSE
  OBVIOUS
<1>1. app \in [Windows -> {"gone", "withdrawn", "shown"}] /\ mapped \in [Windows -> BOOLEAN]
  BY Current DEF State
<1>2. PICK w \in Windows :
        \/ \E g \in Groups \cup {NoGroup} : AppCreate(w, g)
        \/ AppMap(w) \/ (\E b \in BOOLEAN : AppUnmap(w, b)) \/ AppDestroy(w)
  BY DEF App
<1>3. ASSUME NEW g, AppCreate(w, g)
      PROVE  FALSE
  BY <1>1, <1>3 DEF AppCreate, Become, S, Unmapped
<1>4. CASE AppMap(w)
  BY <1>1, <1>4 DEF AppMap, Become, S, Unmapped
<1>5. ASSUME NEW b, AppUnmap(w, b)
      PROVE  FALSE
  BY <1>1, <1>5 DEF AppUnmap, Become, S, Unmapped
<1>6. CASE AppDestroy(w)
  BY <1>1, <1>6 DEF AppDestroy, Become, S, Unmapped
<1> QED
  BY <1>2, <1>3, <1>4, <1>5, <1>6

\* The structure events of the X server unmap no sticky window.
LEMMA StructureStays ==
  ASSUME FInv, Structure
  PROVE  \A w \in Windows : ~Unmapped(w)
<1> DEFINE M == Managed(S)
<1>1. evq # <<>>
  BY DEF Structure, HandleMapRequest, HandleUnmapNotify, HandleSendUnmap,
         HandleDestroyNotify, Next_Event
<1>2. Fine(Rest, M, M) /\ Rest \in State
  BY <1>1, RestFine, KnownType DEF Fine
<1>3. Rest.mapped = S.mapped /\ Rest.flags = S.flags
  BY DEF Rest, S
<1> HIDE DEF M
<1>4. ASSUME NEW w \in Windows, HandleMapRequest(w)
      PROVE  \A v \in Windows : ~Unmapped(v)
  <2>1. PICK hint \in {"none", "Normal", "Iconic"}, atoms \in SUBSET Atoms :
          Become(MapRequested(Rest, w, hint, atoms))
    BY <1>4 DEF HandleMapRequest
  <2> DEFINE t == MapRequested(Rest, w, hint, atoms)
  <2>2. Stays(Rest, t) /\ Become(t)
    BY <1>2, <2>1, MapRequestedStays
  <2> HIDE DEF t
  <2> QED
    BY <1>3, <2>2, StaysStep DEF Stays
<1>5. ASSUME NEW w \in Windows, HandleUnmapNotify(w) \/ HandleDestroyNotify(w)
      PROVE  \A v \in Windows : ~Unmapped(v)
  <2>1. Become(Rest) \/ Become(Delete(Rest, w))
    BY <1>5 DEF HandleUnmapNotify, HandleDestroyNotify
  <2>2. Delete(Rest, w).mapped = Rest.mapped
    BY <1>2, SameMapped DEF Clients
  <2> QED
    BY <1>3, <2>1, <2>2, StaysStep
<1>6. ASSUME NEW w \in Windows, HandleSendUnmap(w)
      PROVE  \A v \in Windows : ~Unmapped(v)
  <2> DEFINE t == [Rest EXCEPT !.wm_state = SetProperty(S, @, {w}, "Withdrawn")]
  <2>1. Become(Rest) \/ Become(t)
    BY <1>6 DEF HandleSendUnmap
  <2>2. t.mapped = Rest.mapped
    BY <1>2 DEF State
  <2> HIDE DEF t
  <2> QED
    BY <1>3, <2>1, <2>2, StaysStep
<1> QED
  BY <1>4, <1>5, <1>6 DEF Structure

\* Moving the pointer unmaps no sticky window.
LEMMA PointerStays ==
  ASSUME FInv, Pointer
  PROVE  \A w \in Windows : ~Unmapped(w)
<1>1. S \in State
  BY CurrentFine, Current
<1>2. CASE HandleEnterRoot
  BY <1>2 DEF HandleEnterRoot, Become, None, S, Unmapped
<1>3. ASSUME NEW w \in Windows, HandleEnter(w)
      PROVE  \A v \in Windows : ~Unmapped(v)
  BY <1>1, <1>3, SameMapped, StaysStep DEF HandleEnter, Clients
<1> QED
  BY <1>2, <1>3 DEF Pointer

\* No key, mouse or menu command unmaps a sticky window.
LEMMA CommandStays ==
  ASSUME FInv, Command
  PROVE  \A w \in Windows : ~Unmapped(w)
<1> DEFINE Same == \A v \in Windows : ~Unmapped(v)
<1>1. S \in State /\ Good(S, Managed(S), Managed(S)) /\ S.group_current \in Groups
  BY CurrentFine, Current, GroupsType
<1>2. ASSUME NEW t, Handle(t), Keeps(S, t) \/ t.mapped = S.mapped
      PROVE  Same
  BY <1>2, StaysStep DEF Handle
<1> HIDE DEF Same
<1>3. ASSUME NEW c \in Clients, KbHide(c) \/ KbToggleSticky(c) \/ KbGroupToggle(c)
      PROVE  Same
  BY <1>1, <1>2, <1>3, HideAllKeeps, SameMapped
  DEF KbHide, KbToggleSticky, KbGroupToggle, Hide
<1>4. ASSUME NEW c \in Clients, NEW g \in Groups, KbMoveToGroup(c, g)
      PROVE  Same
  BY <1>1, <1>2, <1>4, MoveToGroupKeeps DEF KbMoveToGroup
<1>5. ASSUME NEW g \in Groups, KbGroup(g) \/ KbGroupOnly(g)
      PROVE  Same
  BY <1>1, <1>2, <1>5, GroupHideToggleKeeps, GroupOnlyKeeps DEF KbGroup, KbGroupOnly
<1>6. ASSUME NEW g \in Groups, MenuGroup(g) \/ MouseMenuGroup(g)
      PROVE  Same
  <2>1. Handle(GroupShow(S, g)) \/ Handle(GroupHide(S, g))
    BY <1>6 DEF MenuGroup, MouseMenuGroup
  <2> QED
    BY <1>1, <1>2, <2>1, GroupShowKeeps, GroupHideKeeps
<1>7. ASSUME NEW dir \in {1, -1}, KbCycleGroup(dir)
      PROVE  Same
  <2>1. (S.group_current + dir) % NGROUPS \in Groups
    BY <1>1, CycleGroupType
  <2> QED
    BY <1>1, <1>2, <1>7, <2>1, GroupOnlyKeeps DEF KbCycleGroup, CycleGroup
<1>8. ASSUME NEW dir, NEW b, KbCycle(dir, b)
      PROVE  Same
  BY <1>1, <1>2, <1>8, CycleKeeps DEF KbCycle
<1>9. CASE KbNoGroup
  <2>1. Handle(GroupAllToggle(S))
    BY <1>9 DEF KbNoGroup
  <2>2. Keeps(S, GroupAllToggle(S))
    BY <1>1, AllToggleKeeps
  <2> QED
    BY <1>2, <2>1, <2>2 DEF Same
<1>10. CASE KeyRelease
  <2>1. CycleLeave(S).mapped = S.mapped
    BY <1>1 DEF CycleLeave, MoveToFront, State
  <2>2. Handle(CycleLeave(S))
    BY <1>10 DEF KeyRelease
  <2> QED
    BY <1>2, <2>1, <2>2 DEF Same
<1>11. ASSUME NEW w \in Windows, MenuUnhide(w)
       PROVE  Same
  <2> DEFINE u == Unhide(S, w)
             t == PtrWarp(u, w)
  <2>1. u \in State /\ Keeps(S, u)
    BY <1>1, UnhideAllType, UnhideAllKeeps DEF Unhide, Clients
  <2>2. Handle(t)
    BY <1>11 DEF MenuUnhide, Unhidden
  <2> HIDE DEF u
  <2>3. Keeps(u, t)
    BY <2>1, PtrWarpKeeps
  <2> HIDE DEF t
  <2>4. Keeps(S, t)
    BY <2>1, <2>3 DEF Keeps
  <2> QED
    BY <1>2, <2>2, <2>4
<1>12. ASSUME NEW w \in Windows, Search(w)
       PROVE  Same
  <2> DEFINE u == IF Has(S, w, "HIDDEN") THEN Unhide(S, w) ELSE S
             t == PtrWarp(u, w)
             v == GroupHide(t, t.group_current)
             x == GroupSetActive(v, t.group[w])
  <2>1. u \in State /\ Keeps(S, u)
    BY <1>1, UnhideAllType, UnhideAllKeeps DEF Unhide, Clients, Keeps
  <2>2. Handle(x)
    BY <1>12 DEF Search
  <2> HIDE DEF u
  <2>3. Keeps(u, t) /\ t \in State
    BY <2>1, PtrWarpKeeps, PtrWarpType DEF Clients
  <2> HIDE DEF t
  <2>4. Keeps(t, v) /\ v \in State
    BY <2>3, GroupHideKeeps, GroupsType
  <2> HIDE DEF v
  <2>5. Keeps(v, x)
    BY <2>4, GroupSetActiveKeeps
  <2> HIDE DEF x
  <2>6. Keeps(S, x)
    BY <2>1, <2>3, <2>4, <2>5 DEF Keeps
  <2> QED
    BY <1>2, <2>2, <2>6
<1>13. CASE \E c \in Clients : KbHide(c) \/ KbToggleSticky(c) \/ KbGroupToggle(c)
  <2>1. PICK c \in Clients : KbHide(c) \/ KbToggleSticky(c) \/ KbGroupToggle(c)
    BY <1>13
  <2> QED
    BY <1>3, <2>1 DEF Same
<1>14. CASE \E g \in Groups : KbGroup(g) \/ KbGroupOnly(g)
                              \/ MenuGroup(g) \/ MouseMenuGroup(g)
  <2>1. PICK g \in Groups : KbGroup(g) \/ KbGroupOnly(g)
                            \/ MenuGroup(g) \/ MouseMenuGroup(g)
    BY <1>14
  <2> QED
    BY <1>5, <1>6, <2>1 DEF Same
<1>15. CASE \E dir \in {1, -1} : KbCycleGroup(dir) \/ KbCycle(dir, TRUE)
                                                   \/ KbCycle(dir, FALSE)
  <2>1. PICK dir \in {1, -1} : KbCycleGroup(dir) \/ KbCycle(dir, TRUE)
                                                \/ KbCycle(dir, FALSE)
    BY <1>15
  <2> QED
    BY <1>7, <1>8, <2>1 DEF Same
<1> QED
  BY <1>4, <1>9, <1>10, <1>11, <1>12, <1>13, <1>14, <1>15 DEF Command, Same

\* No message of a pager or of a client unmaps a sticky window.
LEMMA MessageStays ==
  ASSUME FInv, Message
  PROVE  \A w \in Windows : ~Unmapped(w)
<1> DEFINE Same == \A v \in Windows : ~Unmapped(v)
<1>1. S \in State /\ Fine(S, Managed(S), Managed(S)) /\ Managed(S) \subseteq Windows
  BY CurrentFine, Current
<1>2. ASSUME NEW t, Handle(t), Keeps(S, t) \/ t.mapped = S.mapped
      PROVE  Same
  BY <1>2, StaysStep DEF Handle
<1> HIDE DEF Same
<1>3. ASSUME NEW w \in Windows, MsgIconify(w)
      PROVE  Same
  BY <1>1, <1>2, <1>3, HideAllKeeps DEF MsgIconify, Hide
<1>4. ASSUME NEW w \in Windows, PropertyTransient(w)
      PROVE  Same
  <2> DEFINE tc == TransientFor[w]
             u == MoveToGroup(S, w, S.group[tc])
             v == [u EXCEPT !.flags[w] = @ \cup {"IGNORE"}]
             t == Transient(S, w)
  <2>1. t \in {S, u, v}
    BY DEF Transient
  <2>2. Handle(t)
    BY <1>4 DEF PropertyTransient
  <2>3. CASE t = S
    BY <1>2, <2>2, <2>3
  <2>4. CASE t \in {u, v} /\ t # S
    <3>1. S.group[tc] \in Groups
      BY <1>1, <2>4 DEF Transient, Fine, Good
    <3>2. Fine(u, Managed(S), Managed(S))
      BY <1>1, <1>4, <3>1, MoveToGroupFine DEF PropertyTransient
    <3>3. u \in State
      BY <3>2, KnownType DEF Fine
    <3>4. Keeps(S, u)
      BY <1>1, MoveToGroupKeeps DEF Clients
    <3> HIDE DEF u
    <3>5. Keeps(u, v)
      BY <3>3 DEF Keeps, State
    <3> HIDE DEF v, t
    <3>6. Keeps(S, t)
      BY <2>4, <3>4, <3>5 DEF Keeps
    <3> QED
      BY <1>2, <2>2, <3>6
  <2> QED
    BY <2>1, <2>3, <2>4
<1>5. ASSUME NEW w \in Windows, NEW g \in Groups, MsgDesktop(w, g)
      PROVE  Same
  BY <1>1, <1>2, <1>5, MoveToGroupKeeps DEF MsgDesktop, Clients
<1>6. ASSUME NEW w \in Windows, NEW action, NEW atoms, MsgState(w, action, atoms)
      PROVE  Same
  <2> DEFINE t == ToggleSticky(S, w)
             x == NetWmState(S, w, action, atoms)
  <2>1. x \in {S, t, ToggleHidden(S, w), ToggleHidden(t, w)}
    BY DEF NetWmState
  <2>2. w \in Managed(S) /\ Handle(x)
    BY <1>6 DEF MsgState
  <2>3. t.mapped = S.mapped /\ ToggleHidden(S, w).mapped = S.mapped
    BY <1>1, SameMapped DEF Clients
  <2>4. t \in State
    <3>1. Fine(t, Managed(S), Managed(S))
      BY <1>1, <2>2, ToggleStickyFine
    <3> HIDE DEF t
    <3> QED
      BY <3>1, KnownType DEF Fine
  <2> HIDE DEF t, x
  <2>5. ToggleHidden(t, w).mapped = t.mapped
    BY <2>4, SameMapped DEF Clients
  <2>6. x.mapped = S.mapped
    BY <2>1, <2>3, <2>5
  <2> QED
    BY <1>2, <2>2, <2>6
<1>7. ASSUME NEW g \in Groups, MsgCurrentDesktop(g)
      PROVE  Same
  BY <1>1, <1>2, <1>7, GroupOnlyKeeps DEF MsgCurrentDesktop
<1> QED
  BY <1>3, <1>4, <1>5, <1>6, <1>7 DEF Message, Same

\* cwm never unmaps a window while it is sticky, whatever groups come and go:
\* only its application makes it disappear (client_hide and its callers).
THEOREM StickyStaysHolds == Spec => StickyStays
<1>1. FInv /\ [Next]_vars
        => [\A w \in Windows : Has(S, w, "STICKY") /\ mapped[w] /\ app'[w] = app[w]
                                 => mapped'[w]]_vars
  <2> SUFFICES ASSUME FInv, Next
               PROVE  \A w \in Windows :
                        Has(S, w, "STICKY") /\ mapped[w] /\ app'[w] = app[w]
                          => mapped'[w]
    OBVIOUS
  <2>1. \A w \in Windows : ~Unmapped(w)
    BY AppStays, StructureStays, PointerStays, CommandStays, MessageStays,
       CurrentFine
    DEF Next
  <2> QED
    BY <2>1 DEF Unmapped
<1> QED
  BY <1>1, FineInvariant, PTL DEF Spec, StickyStays

----------------------------------------------------------------------------
(* One group on display.                                                   *)

\* The state s shows the group g and the sticky windows, and those are in g.
Displays(s, g) ==
  /\ \A w \in Managed(s) :
       IF Has(s, w, "STICKY") THEN s.group[w] = g
       ELSE /\ Has(s, w, "HIDDEN") <=> s.group[w] # g
            /\ s.app[w] # "gone" => (s.mapped[w] <=> s.group[w] = g)
  /\ s.curcc # NoClient => s.group[s.curcc] = g

\* group_only hides every other group, then shows its own and gathers the
\* sticky windows in it.
LEMMA GroupOnlyDisplays ==
  ASSUME NEW s, NEW M, Good(s, M, M), NEW g \in Groups
  PROVE  Displays(GroupOnly(s, g), g)
<1> DEFINE W == UNION {s.members[h] : h \in Groups \ {g}}
           u == HideAll(s, W)
           v == GroupSetActive(u, g)
           x == UnhideAll(v, v.members[g])
           y == AssignAll(x, StickyClients(x), g)
           L == {c \in W : ~Has(s, c, "STICKY")}
           K == {c \in v.members[g] : ~Has(v, c, "STICKY")}
<1>1. /\ s \in State /\ M \subseteq Windows /\ Windows \subseteq Clients
      /\ M = Managed(s) /\ NoClient \notin Clients
      /\ s.curcc # NoClient => s.curcc \in M
  BY KnownType, ClientsAssumption DEF Good, Clients
<1>2. W \in SUBSET Clients
  BY <1>1 DEF State
<1>3. \A w \in M : /\ w \in W <=> s.group[w] # g
                   /\ w \in s.members[g] <=> s.group[w] = g
  BY <1>1 DEF Good
<1> HIDE DEF W
<1>4. /\ SameDesks(s, u) /\ u.members = s.members
      /\ u.flags = Reflag(s.flags, L, {"ACTIVE"}, {"HIDDEN"})
      /\ u.mapped = [w \in Windows |-> s.mapped[w] /\ w \notin L]
      /\ u.curcc = IF s.curcc \in L THEN NoClient ELSE s.curcc
  BY <1>1, HideAllFields
<1>5. u \in State
  BY <1>1, <1>2, HideAllType
<1>6. GroupOnly(s, g) = y
  BY DEF GroupOnly, GroupShow, W
<1> HIDE DEF u
<1>7. /\ v.clientq = s.clientq /\ v.group = s.group /\ v.app = s.app
      /\ v.members = s.members /\ v.flags = u.flags
      /\ v.mapped = u.mapped /\ v.curcc = u.curcc
  BY <1>4, <1>5 DEF SameDesks, GroupSetActive, State
<1>8. v \in State
  BY <1>5, GroupSetActiveType
<1> HIDE DEF v
<1>9. /\ SameDesks(v, x) /\ x.curcc = v.curcc
      /\ x.flags = Reflag(v.flags, K, {"HIDDEN"}, {})
      /\ x.mapped = [w \in Windows |->
                       v.mapped[w] \/ (w \in K /\ v.app[w] # "gone")]
  BY <1>8, UnhideAllFields
<1>10. v.members[g] \in SUBSET Clients
  BY <1>8 DEF State
<1>11. x \in State
  BY <1>8, <1>10, UnhideAllType
<1> HIDE DEF x
<1>12. /\ y.clientq = x.clientq /\ y.app = x.app /\ y.curcc = x.curcc
       /\ y.mapped = x.mapped /\ y.flags = x.flags
       /\ y.group = [c \in Clients |->
                       IF c \in StickyClients(x) THEN g ELSE x.group[c]]
  BY <1>11, AssignAllFields
<1> HIDE DEF y
<1>13. /\ Managed(y) = M /\ StickyClients(x) = {w \in M : Has(x, w, "STICKY")}
       /\ y.app = s.app
  BY <1>1, <1>7, <1>9, <1>12 DEF SameDesks, Managed, StickyClients
<1>14. ASSUME NEW w \in M
       PROVE  /\ Has(y, w, "STICKY") <=> Has(s, w, "STICKY")
              /\ w \in StickyClients(x) <=> Has(s, w, "STICKY")
              /\ Has(y, w, "HIDDEN")
                   <=> (Has(s, w, "HIDDEN") \/ w \in L) /\ w \notin K
  <2>1. Has(u, w, "STICKY") <=> Has(s, w, "STICKY")
    BY <1>1, <1>4 DEF Reflag, Has
  <2>2. Has(x, w, "STICKY") <=> Has(s, w, "STICKY")
    BY <1>1, <1>7, <1>9, <2>1 DEF Reflag, Has
  <2>3. Has(u, w, "HIDDEN") <=> Has(s, w, "HIDDEN") \/ w \in L
    BY <1>1, <1>4 DEF Reflag, Has
  <2>4. Has(x, w, "HIDDEN") <=> Has(u, w, "HIDDEN") /\ w \notin K
    BY <1>1, <1>7, <1>9 DEF Reflag, Has
  <2> QED
    BY <1>12, <1>13, <2>2, <2>3, <2>4 DEF Has
<1>15. \A w \in M : ~Has(s, w, "STICKY") =>
         (w \in L <=> s.group[w] # g) /\ (w \in K <=> s.group[w] = g)
  <2>1. \A w \in M : Has(v, w, "STICKY") <=> Has(s, w, "STICKY")
    BY <1>1, <1>4, <1>7 DEF Reflag, Has
  <2> QED
    BY <1>3, <1>7, <2>1
<1>16. \A w \in M : y.group[w] = IF Has(s, w, "STICKY") THEN g ELSE s.group[w]
  BY <1>1, <1>7, <1>9, <1>12, <1>14 DEF SameDesks
<1>17. \A w \in M : y.mapped[w] <=> (s.mapped[w] /\ w \notin L)
                                      \/ (w \in K /\ s.app[w] # "gone")
  <2>1. \A w \in M : u.mapped[w] <=> s.mapped[w] /\ w \notin L
    BY <1>1, <1>4
  <2>2. \A w \in M : x.mapped[w] <=> v.mapped[w] \/ (w \in K /\ v.app[w] # "gone")
    BY <1>1, <1>9
  <2> QED
    BY <1>7, <1>12, <2>1, <2>2
<1>18. y.curcc # NoClient => y.curcc = s.curcc /\ s.curcc \in M /\ s.curcc \notin L
  BY <1>1, <1>4, <1>7, <1>9, <1>12
<1> HIDE DEF L, K
<1>19. y.curcc # NoClient => y.group[y.curcc] = g
  BY <1>15, <1>16, <1>18
<1>20. ASSUME NEW w \in M
       PROVE  IF Has(y, w, "STICKY") THEN y.group[w] = g
              ELSE /\ Has(y, w, "HIDDEN") <=> y.group[w] # g
                   /\ y.app[w] # "gone" => (y.mapped[w] <=> y.group[w] = g)
  <2>1. CASE Has(s, w, "STICKY")
    BY <1>14, <1>16, <2>1
  <2>2. CASE ~Has(s, w, "STICKY")
    BY <1>13, <1>14, <1>15, <1>16, <1>17, <2>2
  <2> QED
    BY <2>1, <2>2
<1>21. Displays(y, g)
  BY <1>13, <1>19, <1>20 DEF Displays
<1> QED
  BY <1>6, <1>21

\* A switch to a group leaves that group and the sticky windows on display,
\* with the focus in it, whatever the state it found (group_only).
THEOREM OneGroupOnDisplayHolds == Spec => OneGroupOnDisplay
<1>1. IInv /\ [Next]_vars
        => [\A g \in Groups :
              group_current' = g /\ Become(GroupOnly(S, g)) => Switched(g)']_vars
  <2> SUFFICES ASSUME IInv, NEW g \in Groups, Become(GroupOnly(S, g))
               PROVE  Switched(g)'
    OBVIOUS
  <2>1. Good(S, Managed(S), Managed(S))
    BY DEF IInv
  <2> DEFINE t == GroupOnly(S, g)
  <2>2. Good(t, Managed(S), Managed(S)) /\ Displays(t, g)
    BY <2>1, GroupOnlyGood, GroupOnlyDisplays
  <2> HIDE DEF t
  <2>3. Become(t)
    BY DEF t
  <2>4. S' = t
    BY <2>2, <2>3 DEF Become, S, State, Good
  <2>5. Displays(S', g)
    BY <2>2, <2>4
  <2> QED
    BY <2>5 DEF Displays, Switched, S
<1> QED
  BY <1>1, Invariant, PTL DEF Spec, OneGroupOnDisplay

=============================================================================
