--------------------------- MODULE Screens_proofs ---------------------------
(***************************************************************************)
(* What holds of several outputs whatever moves between them: the focus is *)
(* on a live window in sight, and every window that is not sticky is in a  *)
(* group of its own output.  The lists may be broken meanwhile; neither    *)
(* property rests on them, and the proof shows that.                       *)
(*                                                                         *)
(* Then the lists themselves: until the first window crosses they are      *)
(* right, and no handler fails on them.                                    *)
(***************************************************************************)
EXTENDS Screens, Lists_proofs, FiniteSetTheorems, TLAPS

----------------------------------------------------------------------------
(* The invariant.                                                          *)

\* t is a record with the fields of s.
Shaped(t) ==
  t = [nxt |-> t.nxt, prv |-> t.prv, live |-> t.live, freed |-> t.freed,
       sc |-> t.sc, grp |-> t.grp, hidden |-> t.hidden, sticky |-> t.sticky,
       current |-> t.current, cycling |-> t.cycling, cur |-> t.cur,
       status |-> t.status]

Focused(t) == t.cur # Null => t.cur \in t.live \ t.hidden
Owned(t)   == \A w \in t.live \ t.sticky : t.grp[w][1] = t.sc[w]

Sound(t) ==
  /\ Shaped(t)
  /\ t.live \subseteq Windows
  /\ t.sc = [w \in Windows |-> t.sc[w]] /\ t.grp = [w \in Windows |-> t.grp[w]]
  /\ Focused(t)
  /\ Owned(t)

\* t and u differ in the lists, the current groups and the cycling alone.
SameClients(t, u) ==
  /\ Shaped(u)
  /\ u.live = t.live /\ u.sc = t.sc /\ u.grp = t.grp
  /\ u.hidden = t.hidden /\ u.sticky = t.sticky /\ u.cur = t.cur

\* Then both are sound.
LEMMA SameSound ==
  ASSUME NEW t, NEW u, Sound(t), SameClients(t, u)
  PROVE  Sound(u)
BY DEF Sound, SameClients, Focused, Owned

----------------------------------------------------------------------------
(* Lists.                                                                  *)

\* The macros of queue.h and the loops over a list change links alone.
LEMMA TouchSame ==
  ASSUME NEW t, Shaped(t), NEW X
  PROVE  SameClients(t, Touch(t, X))
BY DEF Touch, SameClients, Shaped

\* TAILQ_INSERT_TAIL changes no client, whatever the links are.
LEMMA InsertTailSame ==
  ASSUME NEW t, Shaped(t), NEW h, NEW e
  PROVE  SameClients(t, InsertTail(t, h, e))
<1> DEFINE u == Touch(t, {t.prv[h]})
<1>1. SameClients(t, u)
  BY TouchSame
<1> HIDE DEF u
<1>2. InsertTail(t, h, e)
        = [u EXCEPT !.nxt = [@ EXCEPT ![e] = Null, ![t.prv[h]] = e],
                    !.prv = [@ EXCEPT ![e] = t.prv[h], ![h] = e]]
  BY DEF InsertTail, u
<1> QED
  BY <1>1, <1>2 DEF SameClients, Shaped

\* Nor does TAILQ_INSERT_HEAD.
LEMMA InsertHeadSame ==
  ASSUME NEW t, Shaped(t), NEW h, NEW e
  PROVE  SameClients(t, InsertHead(t, h, e))
<1> DEFINE u == Touch(t, {t.nxt[h]})
           owner == IF t.nxt[h] # Null THEN t.nxt[h] ELSE h
<1>1. SameClients(t, u)
  BY TouchSame
<1> HIDE DEF u
<1>2. InsertHead(t, h, e)
        = [u EXCEPT !.nxt = [@ EXCEPT ![e] = t.nxt[h], ![h] = e],
                    !.prv = [@ EXCEPT ![owner] = e, ![e] = h]]
  BY DEF InsertHead, u
<1> QED
  BY <1>1, <1>2 DEF SameClients, Shaped

\* Nor does TAILQ_REMOVE, of an element in the list or not.
LEMMA UnlinkSame ==
  ASSUME NEW t, Shaped(t), NEW h, NEW e
  PROVE  SameClients(t, Unlink(t, h, e))
<1> DEFINE u == Touch(t, {t.nxt[e], t.prv[e]})
           owner == IF t.nxt[e] # Null THEN t.nxt[e] ELSE h
<1>1. SameClients(t, u)
  BY TouchSame
<1> HIDE DEF u
<1>2. Unlink(t, h, e) = [u EXCEPT !.prv = [@ EXCEPT ![owner] = t.prv[e]],
                                  !.nxt = [@ EXCEPT ![t.prv[e]] = t.nxt[e]]]
  BY DEF Unlink, u
<1> QED
  BY <1>1, <1>2 DEF SameClients, Shaped

\* Nor does a loop over a list.
LEMMA WalkedSame ==
  ASSUME NEW t, Shaped(t), NEW o
  PROVE  SameClients(t, Walked(t, o))
<1>1. CASE Endless(t, o)
  BY <1>1 DEF Walked, SameClients, Shaped
<1>2. CASE ~Endless(t, o)
  BY <1>2, TouchSame DEF Walked
<1> QED
  BY <1>1, <1>2

\* client_mtf moves the client within a list.
LEMMA MoveToFrontSame ==
  ASSUME NEW t, Shaped(t), NEW w
  PROVE  SameClients(t, MoveToFront(t, w))
<1> DEFINE u == Unlink(t, t.sc[w], w)
<1>1. SameClients(t, u)
  BY UnlinkSame
<1> HIDE DEF u
<1>2. SameClients(u, InsertHead(u, t.sc[w], w))
  BY <1>1, InsertHeadSame DEF SameClients
<1>3. MoveToFront(t, w) = InsertHead(u, t.sc[w], w)
  BY DEF MoveToFront, u
<1> QED
  BY <1>1, <1>2, <1>3 DEF SameClients

----------------------------------------------------------------------------
(* Clients.                                                                *)

\* client_hide takes the focus from what it hides, client_unhide gives none.
LEMMA HideSound ==
  ASSUME NEW t, Sound(t), NEW W
  PROVE  Sound(HideAll(t, W)) /\ Sound(UnhideAll(t, W))
<1> DEFINE u == HideAll(t, W)
           v == UnhideAll(t, W)
           L == W \ t.sticky
<1>0. /\ Shaped(t)
      /\ u = [t EXCEPT !.hidden = @ \cup L,
                       !.cur = IF @ \in L THEN Null ELSE @]
      /\ v = [t EXCEPT !.hidden = @ \ L]
  BY DEF HideAll, UnhideAll, Sound
<1> HIDE DEF u, v, L
<1>1. /\ Shaped(u) /\ u.live = t.live /\ u.sc = t.sc /\ u.grp = t.grp
      /\ u.sticky = t.sticky /\ u.hidden = t.hidden \cup L
      /\ u.cur = IF t.cur \in L THEN Null ELSE t.cur
  BY <1>0 DEF Shaped
<1>2. /\ Shaped(v) /\ v.live = t.live /\ v.sc = t.sc /\ v.grp = t.grp
      /\ v.sticky = t.sticky /\ v.hidden = t.hidden \ L /\ v.cur = t.cur
  BY <1>0 DEF Shaped
<1>3. Sound(u)
  BY <1>1 DEF Sound, Focused, Owned
<1>4. Sound(v)
  BY <1>2 DEF Sound, Focused, Owned
<1> QED
  BY <1>3, <1>4 DEF u, v

\* group_assign to a group of the output a client is on, or of a sticky one.
LEMMA AssignSound ==
  ASSUME NEW t, Sound(t), NEW W, NEW g,
         \A w \in W \cap (t.live \ t.sticky) : g[1] = t.sc[w]
  PROVE  Sound(Assign(t, W, g))
<1> DEFINE u == Assign(t, W, g)
<1>1. /\ Shaped(u) /\ u.live = t.live /\ u.sc = t.sc /\ u.cur = t.cur
      /\ u.sticky = t.sticky /\ u.hidden = t.hidden
      /\ u.grp = [w \in Windows |-> IF w \in W THEN g ELSE t.grp[w]]
  BY DEF Assign, Sound, Shaped
<1> HIDE DEF u
<1>2. Sound(u)
  BY <1>1 DEF Sound, Focused, Owned
<1> QED
  BY <1>2 DEF u

\* client_setactive does nothing to a hidden client.
LEMMA SetActiveSound ==
  ASSUME NEW t, Sound(t), NEW w \in t.live
  PROVE  Sound(SetActive(t, w))
<1> DEFINE u == IF t.sc[w] \in t.cycling THEN t ELSE MoveToFront(t, w)
           v == [u EXCEPT !.cur = w]
<1>1. SameClients(t, u)
  BY MoveToFrontSame DEF SameClients, Sound
<1>2. SetActive(t, w) = IF w \in t.hidden THEN t ELSE v
  BY DEF SetActive
<1> HIDE DEF u
<1>3. /\ Shaped(v) /\ v.live = t.live /\ v.sc = t.sc /\ v.grp = t.grp
      /\ v.sticky = t.sticky /\ v.hidden = t.hidden /\ v.cur = w
  BY <1>1 DEF SameClients, Shaped
<1> HIDE DEF v
<1>4. CASE w \in t.hidden
  BY <1>2, <1>4
<1>5. CASE w \notin t.hidden
  BY <1>2, <1>3, <1>5 DEF Sound, Focused, Owned
<1> QED
  BY <1>4, <1>5

\* client_init puts a new window in a group of its output.
LEMMA ClientInitSound ==
  ASSUME NEW t, Sound(t), NEW w \in Windows, NEW o, NEW n
  PROVE  Sound(ClientInit(t, w, o, n))
<1> DEFINE u == [t EXCEPT !.sc[w] = o, !.grp[w] = <<o, n>>,
                          !.live = @ \cup {w}]
           v == InsertTail(u, o, w)
<1>0. /\ Shaped(t)
      /\ u = [t EXCEPT !.sc[w] = o, !.grp[w] = <<o, n>>, !.live = @ \cup {w}]
  BY DEF Sound
<1> HIDE DEF u
<1>1. /\ Shaped(u) /\ u.live = t.live \cup {w} /\ u.cur = t.cur
      /\ u.sc = [t.sc EXCEPT ![w] = o] /\ u.grp = [t.grp EXCEPT ![w] = <<o, n>>]
      /\ u.sticky = t.sticky /\ u.hidden = t.hidden
  BY <1>0 DEF Shaped
<1>2. Sound(u)
  <2>1. u.sc[w] = o /\ u.grp[w][1] = o
    BY <1>1 DEF Sound
  <2>2. \A x \in Windows \ {w} : u.sc[x] = t.sc[x] /\ u.grp[x] = t.grp[x]
    BY <1>1 DEF Sound
  <2>3. Owned(u)
    BY <1>1, <2>1, <2>2 DEF Sound, Owned
  <2>4. Focused(u)
    BY <1>1 DEF Sound, Focused
  <2>5. /\ u.sc = [x \in Windows |-> u.sc[x]]
        /\ u.grp = [x \in Windows |-> u.grp[x]]
    BY <1>1 DEF Sound
  <2> QED
    BY <1>1, <2>3, <2>4, <2>5 DEF Sound
<1>3. Sound(v)
  BY <1>2, InsertTailSame, SameSound DEF Sound
<1> HIDE DEF v
<1>4. Sound(Walked(v, o))
  BY <1>3, WalkedSame, SameSound DEF Sound
<1> QED
  BY <1>4 DEF ClientInit, u, v

\* client_delete takes the focus from the client it frees.
LEMMA DeleteSound ==
  ASSUME NEW t, Sound(t), NEW w \in Windows
  PROVE  Sound(Delete(t, w))
<1> DEFINE r == Unlink(t, t.sc[w], w)
           u == Walked(r, t.sc[w])
           v == IF w = u.cur THEN None(u) ELSE u
           x == Delete(t, w)
<1>1. Sound(r)
  BY UnlinkSame, SameSound DEF Sound
<1> HIDE DEF r
<1>2. Sound(u)
  BY <1>1, WalkedSame, SameSound DEF Sound
<1> HIDE DEF u
<1>3. /\ Shaped(v) /\ v.live = u.live /\ v.sc = u.sc /\ v.grp = u.grp
      /\ v.sticky = u.sticky /\ v.hidden = u.hidden
      /\ v.cur = IF w = u.cur THEN Null ELSE u.cur
  BY <1>2 DEF None, Sound, Shaped
<1> HIDE DEF v
<1>4. x = [v EXCEPT !.live = @ \ {w}, !.freed = @ \cup {w}, !.sc[w] = Null,
                    !.grp[w] = Null, !.hidden = @ \ {w}, !.sticky = @ \ {w},
                    !.nxt[w] = Null, !.prv[w] = Null]
  BY DEF Delete, v, u, r
<1> HIDE DEF x
<1>5. /\ Shaped(x) /\ x.live = v.live \ {w} /\ x.cur = v.cur
      /\ x.sc = [v.sc EXCEPT ![w] = Null] /\ x.grp = [v.grp EXCEPT ![w] = Null]
      /\ x.sticky = v.sticky \ {w} /\ x.hidden = v.hidden \ {w}
  BY <1>3, <1>4 DEF Shaped
<1>6. Sound(x)
  <2>1. \A y \in Windows \ {w} : x.sc[y] = u.sc[y] /\ x.grp[y] = u.grp[y]
    BY <1>2, <1>3, <1>5 DEF Sound
  <2>2. Owned(x)
    BY <1>2, <1>3, <1>5, <2>1 DEF Sound, Owned
  <2>3. Focused(x)
    BY <1>2, <1>3, <1>5 DEF Sound, Focused
  <2>4. /\ x.sc = [y \in Windows |-> x.sc[y]]
        /\ x.grp = [y \in Windows |-> x.grp[y]]
    BY <1>2, <1>3, <1>5 DEF Sound
  <2> QED
    BY <1>2, <1>3, <1>5, <2>2, <2>3, <2>4 DEF Sound
<1> QED
  BY <1>6 DEF x

\* client_move puts a client that crosses in the current group of the output.
LEMMA MoveSound ==
  ASSUME NEW t, Sound(t), NEW w \in Windows, NEW o
  PROVE  Sound(Move(t, w, o))
<1> DEFINE u == IF t.sc[w] # o THEN Assign(t, {w}, <<o, t.current[o]>>) ELSE t
           v == Move(t, w, o)
<1>1. /\ Shaped(u) /\ u.live = t.live /\ u.sc = t.sc /\ u.cur = t.cur
      /\ u.sticky = t.sticky /\ u.hidden = t.hidden
      /\ u.grp = [x \in Windows |-> IF x = w /\ t.sc[w] # o
                                      THEN <<o, t.current[o]>> ELSE t.grp[x]]
  BY DEF Assign, Sound, Shaped
<1>2. v = [u EXCEPT !.sc[w] = o]
  BY DEF Move
<1> HIDE DEF u, v
<1>3. /\ Shaped(v) /\ v.live = t.live /\ v.sc = [t.sc EXCEPT ![w] = o]
      /\ v.cur = t.cur /\ v.grp = u.grp
      /\ v.sticky = t.sticky /\ v.hidden = t.hidden
  BY <1>1, <1>2 DEF Shaped
<1>4. Sound(v)
  BY <1>1, <1>3 DEF Sound, Focused, Owned
<1> QED
  BY <1>4 DEF v

\* client_toggle_sticky brings a client that is sticky no more home.
LEMMA ToggleStickySound ==
  ASSUME NEW t, Sound(t), NEW w \in Windows
  PROVE  Sound(ToggleSticky(t, w))
<1> DEFINE g == <<t.sc[w], t.current[t.sc[w]]>>
           u == Assign(t, {w}, g)
           v == [u EXCEPT !.sticky = @ \ {w}]
           x == [t EXCEPT !.sticky = @ \cup {w}]
<1>1. Sound(u)
  BY AssignSound
<1>2. u.grp[w] = g /\ u.sc = t.sc
  BY DEF Assign, Sound, Shaped
<1>3. ToggleSticky(t, w) = IF w \in t.sticky THEN v ELSE x
  BY DEF ToggleSticky
<1> HIDE DEF u
<1>4. /\ Shaped(v) /\ v.live = u.live /\ v.sc = u.sc /\ v.grp = u.grp
      /\ v.cur = u.cur /\ v.hidden = u.hidden /\ v.sticky = u.sticky \ {w}
  BY <1>1 DEF Sound, Shaped
<1>5. /\ Shaped(x) /\ x.live = t.live /\ x.sc = t.sc /\ x.grp = t.grp
      /\ x.cur = t.cur /\ x.hidden = t.hidden /\ x.sticky = t.sticky \cup {w}
  BY DEF Sound, Shaped
<1> HIDE DEF v, x
<1>6. Sound(v)
  BY <1>1, <1>2, <1>4 DEF Sound, Focused, Owned
<1>7. Sound(x)
  BY <1>5 DEF Sound, Focused, Owned
<1> QED
  BY <1>3, <1>6, <1>7

----------------------------------------------------------------------------
(* Groups and cycling.                                                     *)

\* A new current group or the end of a cycle concerns no client.
LEMMA CurrentSame ==
  ASSUME NEW t, Shaped(t), NEW f
  PROVE  /\ SameClients(t, [t EXCEPT !.current = f])
         /\ SameClients(t, [t EXCEPT !.cycling = f])
         /\ SameClients(t, [t EXCEPT !.status = f])
BY DEF SameClients, Shaped

\* group_show draws only sticky clients into the group.
LEMMA GroupShowSound ==
  ASSUME NEW t, Sound(t), NEW g
  PROVE  Sound(GroupShow(t, g))
<1> DEFINE u == Walked(t, g[1])
           v == UnhideAll(u, In(u, g))
<1>1. Sound(u)
  BY WalkedSame, SameSound DEF Sound
<1>2. GroupShow(t, g) = Assign(v, Members(u, g[1]) \cap u.sticky, g)
  BY DEF GroupShow
<1> HIDE DEF u
<1>3. Sound(v) /\ v.sticky = u.sticky
  <2>1. Sound(v)
    BY <1>1, HideSound
  <2>2. v.sticky = u.sticky
    BY <1>1 DEF UnhideAll, Sound, Shaped
  <2> QED
    BY <2>1, <2>2
<1> HIDE DEF v
<1>4. Sound(Assign(v, Members(u, g[1]) \cap u.sticky, g))
  BY <1>3, AssignSound
<1> QED
  BY <1>2, <1>4

\* group_hide and group_only.
LEMMA GroupHideSound ==
  ASSUME NEW t, Sound(t), NEW g
  PROVE  Sound(GroupHide(t, g))
BY HideSound DEF GroupHide

\* group_only hides all other groups of its output and shows its own.
LEMMA GroupOnlySound ==
  ASSUME NEW t, Sound(t), NEW o, NEW n
  PROVE  Sound(GroupOnly(t, o, n))
<1> DEFINE u == HideAll(t, UNION {In(t, <<o, m>>) : m \in Groups \ {n}})
           v == [u EXCEPT !.current[o] = n]
<1>1. Sound(u)
  BY HideSound
<1>2. GroupOnly(t, o, n) = GroupShow(v, <<o, n>>)
  BY DEF GroupOnly
<1> HIDE DEF u
<1>3. Sound(v)
  <2>1. SameClients(u, v)
    BY <1>1 DEF Sound, SameClients, Shaped
  <2> QED
    BY <1>1, <2>1, SameSound
<1> HIDE DEF v
<1> QED
  BY <1>2, <1>3, GroupShowSound

\* group_movetogroup and group_toggle_membership_enter stay on the output.
LEMMA MoveToGroupSound ==
  ASSUME NEW t, Sound(t), NEW w, NEW n
  PROVE  Sound(MoveToGroup(t, w, n))
<1> DEFINE g == <<t.sc[w], n>>
           u == IF In(t, g) \subseteq t.sticky \cup t.hidden
                  THEN HideAll(t, {w}) ELSE t
<1>1. Sound(u) /\ u.sc = t.sc
  <2>1. Sound(HideAll(t, {w}))
    BY HideSound
  <2>2. HideAll(t, {w}).sc = t.sc
    BY DEF HideAll, Sound, Shaped
  <2> QED
    BY <2>1, <2>2
<1>2. MoveToGroup(t, w, n) = IF t.grp[w] = g THEN t ELSE Assign(u, {w}, g)
  BY DEF MoveToGroup
<1> HIDE DEF u
<1>3. Sound(Assign(u, {w}, g))
  BY <1>1, AssignSound
<1> QED
  BY <1>2, <1>3

\* group_toggle_membership_enter keeps the client on its output.
LEMMA ToggleMembershipSound ==
  ASSUME NEW t, Sound(t), NEW w
  PROVE  Sound(ToggleMembership(t, w))
<1> DEFINE g == <<t.sc[w], t.current[t.sc[w]]>>
           h == <<t.sc[w], 0>>
<1>1. Sound(Assign(t, {w}, g)) /\ Sound(Assign(t, {w}, h))
  BY AssignSound
<1> QED
  BY <1>1 DEF ToggleMembership

\* client_cycle only warps the pointer; client_cycle_leave moves a client in
\* its list.
LEMMA CycleSound ==
  ASSUME NEW t, Sound(t), NEW o, NEW dir, NEW ingroup
  PROVE  Sound(Cycle(t, o, dir, ingroup)) /\ Sound(CycleLeave(t, o))
<1> DEFINE c == Cycle(t, o, dir, ingroup)
           u == [t EXCEPT !.cycling = @ \ {o}]
<1>1. \/ c = t
      \/ \E f : c = [t EXCEPT !.status = f]
      \/ \E f : c = [t EXCEPT !.cycling = f]
  <2>1. \/ c = t
        \/ c = [t EXCEPT !.status = "freed"] \/ c = [t EXCEPT !.status = "hang"]
        \/ c = [t EXCEPT !.status = "null"]
        \/ c = [t EXCEPT !.cycling = @ \cup {o}]
    BY DEF Cycle
  <2> HIDE DEF c
  <2> QED
    BY <2>1
<1> HIDE DEF c
<1>2. Sound(c)
  <2>1. Shaped(t)
    BY DEF Sound
  <2>2. SameClients(t, c)
    BY <1>1, <2>1 DEF SameClients, Shaped
  <2> QED
    BY <2>2, SameSound
<1>3. Sound(u)
  <2>1. SameClients(t, u)
    BY DEF Sound, SameClients, Shaped
  <2> QED
    BY <2>1, SameSound
<1>4. CycleLeave(t, o) = IF u.cur = Null THEN u ELSE MoveToFront(u, u.cur)
  BY DEF CycleLeave
<1> HIDE DEF u
<1>5. Sound(MoveToFront(u, u.cur))
  BY <1>3, MoveToFrontSame, SameSound DEF Sound
<1> QED
  BY <1>2, <1>3, <1>4, <1>5 DEF c

----------------------------------------------------------------------------
(* Every step.                                                             *)

\* A handler that leaves a sound state, or cwm's end in it.
LEMMA HandleSound ==
  ASSUME Sound(s), NEW t, Sound(t), Handle(t)
  PROVE  Sound(s)'
<1>1. s' = t \/ s' = [s EXCEPT !.status = t.status]
  BY DEF Handle
<1>2. Sound([s EXCEPT !.status = t.status])
  BY CurrentSame, SameSound DEF Sound
<1> QED
  BY <1>1, <1>2

\* No handler or command disturbs the focus or takes a window from the groups
\* of its output.
LEMMA NextSound ==
  ASSUME Sound(s), [Next]_svars
  PROVE  Sound(s)'
<1>1. CASE UNCHANGED svars
  BY <1>1 DEF svars
<1>2. ASSUME NEW w \in Windows, NEW o \in Outputs, NEW n \in Groups,
             MapRequest(w, o, n)
      PROVE  Sound(s)'
  <2>1. Handle(ClientInit(s, w, o, n))
    BY <1>2 DEF MapRequest
  <2> QED
    BY <2>1, ClientInitSound, HandleSound
<1>3. ASSUME NEW w \in Windows, Gone(w)
      PROVE  Sound(s)'
  <2>1. Handle(Delete(s, w))
    BY <1>3 DEF Gone
  <2> QED
    BY <2>1, DeleteSound, HandleSound
<1>4. ASSUME NEW w \in Windows, EnterNotify(w)
      PROVE  Sound(s)'
  <2>1. Handle(SetActive(s, w)) /\ w \in s.live
    BY <1>4 DEF EnterNotify
  <2> QED
    BY <2>1, SetActiveSound, HandleSound
<1>5. ASSUME NEW w \in Windows, KbHide(w)
      PROVE  Sound(s)'
  <2>1. Handle(HideAll(s, {w}))
    BY <1>5 DEF KbHide
  <2> QED
    BY <2>1, HideSound, HandleSound
<1>6. ASSUME NEW w \in Windows, KbToggleSticky(w)
      PROVE  Sound(s)'
  <2>1. Handle(ToggleSticky(s, w))
    BY <1>6 DEF KbToggleSticky
  <2> QED
    BY <2>1, ToggleStickySound, HandleSound
<1>7. ASSUME NEW w \in Windows, KbGroupToggle(w)
      PROVE  Sound(s)'
  <2>1. Handle(ToggleMembership(s, w))
    BY <1>7 DEF KbGroupToggle
  <2> QED
    BY <2>1, ToggleMembershipSound, HandleSound
<1>8. ASSUME NEW w \in Windows, Search(w)
      PROVE  Sound(s)'
  <2> DEFINE t == UnhideAll(s, {w})
             u == GroupHide(t, <<First, t.current[First]>>)
             v == [u EXCEPT !.current[u.grp[w][1]] = u.grp[w][2]]
  <2>1. Handle(v)
    BY <1>8 DEF Search
  <2>2. Sound(t)
    BY HideSound
  <2> HIDE DEF t
  <2>3. Sound(u)
    BY <2>2, GroupHideSound
  <2> HIDE DEF u
  <2>4. Sound(v)
    <3>1. SameClients(u, v)
      BY <2>3 DEF Sound, SameClients, Shaped
    <3> QED
      BY <2>3, <3>1, SameSound
  <2> HIDE DEF v
  <2> QED
    BY <2>1, <2>4, HandleSound
<1>9. ASSUME NEW w \in Windows, NEW o \in Outputs, MoveTo(w, o)
      PROVE  Sound(s)'
  <2>1. s' = Move(s, w, o)
    BY <1>9 DEF MoveTo
  <2>2. Sound(Move(s, w, o))
    BY MoveSound
  <2> QED
    BY <2>1, <2>2
<1>10. ASSUME NEW w \in Windows, NEW n \in Groups, KbMoveToGroup(w, n)
       PROVE  Sound(s)'
  <2>1. Handle(MoveToGroup(s, w, n))
    BY <1>10 DEF KbMoveToGroup
  <2> QED
    BY <2>1, MoveToGroupSound, HandleSound
<1>11. ASSUME NEW o \in Outputs, NEW n \in Groups, KbGroup(o, n)
       PROVE  Sound(s)'
  <2>1. Handle(GroupShow(s, <<o, n>>)) \/ Handle(GroupHide(s, <<o, n>>))
    BY <1>11 DEF KbGroup
  <2> QED
    BY <2>1, GroupShowSound, GroupHideSound, HandleSound
<1>12. ASSUME NEW o, NEW n, Handle(GroupOnly(s, o, n))
       PROVE  Sound(s)'
  BY <1>12, GroupOnlySound, HandleSound
<1>13. ASSUME NEW o, NEW dir, NEW ingr, Handle(Cycle(s, o, dir, ingr))
       PROVE  Sound(s)'
  BY <1>13, CycleSound, HandleSound
<1>14. CASE EnterRoot
  <2> DEFINE t == None(s)
  <2>1. /\ Shaped(t) /\ t.live = s.live /\ t.sc = s.sc /\ t.grp = s.grp
        /\ t.hidden = s.hidden /\ t.sticky = s.sticky /\ t.cur = Null
    BY DEF None, Sound, Shaped
  <2>2. Handle(t)
    BY <1>14 DEF EnterRoot
  <2> HIDE DEF t
  <2>3. Sound(t)
    BY <2>1 DEF Sound, Focused, Owned
  <2> QED
    BY <2>2, <2>3, HandleSound
<1>15. CASE KeyRelease
  <2>1. Handle(CycleLeave(s, First))
    BY <1>15 DEF KeyRelease
  <2> QED
    BY <2>1, CycleSound, HandleSound
<1> QED
  BY <1>1, <1>2, <1>3, <1>4, <1>5, <1>6, <1>7, <1>8, <1>9, <1>10, <1>11, <1>12,
     <1>13, <1>14, <1>15
  DEF Next, KbGroupOnly, KbCycle, MsgCurrentDesktop

\* The state before the first window.
LEMMA InitSound == Init => Sound(s)
BY DEF Init, Sound, Shaped, Focused, Owned

\* The inductive invariant of the outputs.
THEOREM SoundInvariant == Spec => []Sound(s)
BY InitSound, NextSound, PTL DEF Spec

\* The one focus of all outputs is never on a freed or a hidden client, though
\* the lists it is looked up in may be broken by a move (client_hide,
\* client_delete, client_setactive).
THEOREM FocusIsLiveHolds == Spec => []FocusIsLive
<1>1. Sound(s) => FocusIsLive
  BY DEF Sound, Focused, FocusIsLive
<1> QED
  BY <1>1, SoundInvariant, PTL

\* A window that is not sticky is in a group of the output it is on, however
\* often windows cross (client_move, group_movetogroup, client_toggle_sticky).
THEOREM OwnGroupHolds == Spec => []OwnGroup
<1>1. Sound(s) => OwnGroup
  BY DEF Sound, Owned, OwnGroup
<1> QED
  BY <1>1, SoundInvariant, PTL

----------------------------------------------------------------------------
(* The groups of one output.                                               *)

\* From t to u nothing happens to the windows of other outputs than o, but to
\* the sticky ones.
Beside(t, u, o) ==
  /\ Sound(u) /\ u.live = t.live /\ u.sticky = t.sticky /\ u.sc = t.sc
  /\ \A w \in t.live \ t.sticky :
       t.sc[w] # o => /\ u.grp[w] = t.grp[w]
                      /\ w \in u.hidden <=> w \in t.hidden

\* One step after the other.
LEMMA BesideChain ==
  ASSUME NEW t, NEW u, NEW v, NEW o, Beside(t, u, o), Beside(u, v, o)
  PROVE  Beside(t, v, o)
BY DEF Beside

\* A change of the links or of the current group.
LEMMA BesideSame ==
  ASSUME NEW t, Sound(t), NEW u, SameClients(t, u), NEW o
  PROVE  Beside(t, u, o)
BY SameSound DEF Beside, SameClients

\* Hiding and showing windows of o, and sticky ones.
LEMMA BesideHide ==
  ASSUME NEW t, Sound(t), NEW W, NEW o,
         \A w \in W \cap (t.live \ t.sticky) : t.sc[w] = o
  PROVE  Beside(t, HideAll(t, W), o) /\ Beside(t, UnhideAll(t, W), o)
<1> DEFINE u == HideAll(t, W)
           v == UnhideAll(t, W)
           L == W \ t.sticky
<1>1. Sound(u) /\ Sound(v)
  BY HideSound
<1>2. /\ Shaped(t)
      /\ u = [t EXCEPT !.hidden = @ \cup L,
                       !.cur = IF @ \in L THEN Null ELSE @]
      /\ v = [t EXCEPT !.hidden = @ \ L]
  BY DEF HideAll, UnhideAll, Sound
<1> HIDE DEF u, v
<1>3. /\ u.live = t.live /\ u.sc = t.sc /\ u.grp = t.grp
      /\ u.sticky = t.sticky /\ u.hidden = t.hidden \cup L
      /\ v.live = t.live /\ v.sc = t.sc /\ v.grp = t.grp
      /\ v.sticky = t.sticky /\ v.hidden = t.hidden \ L
  BY <1>2 DEF Shaped
<1>4. Beside(t, u, o)
  BY <1>1, <1>3 DEF Beside
<1>5. Beside(t, v, o)
  BY <1>1, <1>3 DEF Beside
<1> QED
  BY <1>4, <1>5 DEF u, v

\* The members of a group of o that are not sticky are on o.
LEMMA MembersOwned ==
  ASSUME NEW t, Sound(t), NEW o, NEW n
  PROVE  \A w \in In(t, <<o, n>>) \cap (t.live \ t.sticky) : t.sc[w] = o
BY DEF In, Sound, Owned

\* group_show and group_hide of a group of o.
LEMMA BesideGroup ==
  ASSUME NEW t, Sound(t), NEW o, NEW n
  PROVE  Beside(t, GroupShow(t, <<o, n>>), o) /\ Beside(t, GroupHide(t, <<o, n>>), o)
<1> DEFINE g == <<o, n>>
           u == Walked(t, o)
           v == UnhideAll(u, In(u, g))
           W == Members(u, o) \cap u.sticky
           x == Assign(v, W, g)
<1>1. g[1] = o
  OBVIOUS
<1>2. GroupShow(t, g) = x
  BY <1>1 DEF GroupShow
<1>3. Beside(t, u, o)
  BY WalkedSame, BesideSame DEF Sound
<1> HIDE DEF u
<1>4. Sound(u)
  BY <1>3 DEF Beside
<1>5. Beside(u, v, o)
  BY <1>4, MembersOwned, BesideHide
<1> HIDE DEF v
<1>6. Sound(v) /\ v.sticky = u.sticky
  BY <1>5 DEF Beside
<1>7. Sound(x)
  BY <1>6, AssignSound
<1>8. /\ Shaped(x) /\ x.live = v.live /\ x.sc = v.sc
      /\ x.sticky = v.sticky /\ x.hidden = v.hidden
      /\ x.grp = [w \in Windows |-> IF w \in W THEN g ELSE v.grp[w]]
  BY <1>6 DEF Assign, Sound, Shaped
<1> HIDE DEF x
<1>9. Beside(v, x, o)
  BY <1>6, <1>7, <1>8 DEF Beside, Sound
<1>10. Beside(t, x, o)
  BY <1>3, <1>5, <1>9, BesideChain
<1>11. Beside(t, GroupHide(t, g), o)
  BY MembersOwned, BesideHide DEF GroupHide
<1> QED
  BY <1>2, <1>10, <1>11

\* group_only hides groups of o only.
LEMMA BesideOnly ==
  ASSUME NEW t, Sound(t), NEW o, NEW n
  PROVE  Beside(t, GroupOnly(t, o, n), o)
<1> DEFINE W == UNION {In(t, <<o, m>>) : m \in Groups \ {n}}
           u == HideAll(t, W)
           v == [u EXCEPT !.current[o] = n]
<1>1. \A w \in W \cap (t.live \ t.sticky) : t.sc[w] = o
  <2> SUFFICES ASSUME NEW w \in W \cap (t.live \ t.sticky)
               PROVE  t.sc[w] = o
    OBVIOUS
  <2>1. PICK m \in Groups \ {n} : w \in In(t, <<o, m>>)
    OBVIOUS
  <2> QED
    BY <2>1, MembersOwned
<1>2. GroupOnly(t, o, n) = GroupShow(v, <<o, n>>)
  BY DEF GroupOnly
<1> HIDE DEF W
<1>3. Beside(t, u, o)
  BY <1>1, BesideHide
<1> HIDE DEF u
<1>4. Sound(u)
  BY <1>3 DEF Beside
<1>5. SameClients(u, v)
  BY <1>4 DEF Sound, SameClients, Shaped
<1>6. Beside(u, v, o)
  BY <1>4, <1>5, BesideSame
<1> HIDE DEF v
<1>7. Beside(v, GroupShow(v, <<o, n>>), o)
  <2>1. Sound(v)
    BY <1>6 DEF Beside
  <2> QED
    BY <2>1, BesideGroup
<1> QED
  BY <1>2, <1>3, <1>6, <1>7, BesideChain

\* The key commands on the groups of an output, though windows have crossed,
\* hide, show and move no window of another (kbfunc_client_group and its kin).
THEOREM OutputsApartHolds == Spec => OutputsApart
<1>1. ASSUME Sound(s), NEW o \in Outputs, NEW w \in s.live \ s.sticky, s.sc[w] # o,
             s'.grp[w] # s.grp[w] \/ (w \in s'.hidden) # (w \in s.hidden),
             NEW n \in Groups, KbGroup(o, n) \/ KbGroupOnly(o, n)
      PROVE  FALSE
  <2>1. PICK t \in {GroupShow(s, <<o, n>>), GroupHide(s, <<o, n>>), GroupOnly(s, o, n)} :
          Handle(t)
    BY <1>1 DEF KbGroup, KbGroupOnly
  <2>2. Beside(s, t, o)
    BY <1>1, BesideGroup, BesideOnly
  <2>3. t.grp[w] = s.grp[w] /\ (w \in t.hidden <=> w \in s.hidden)
    BY <1>1, <2>2 DEF Beside
  <2>4. s' = t \/ s' = [s EXCEPT !.status = t.status]
    BY <2>1 DEF Handle
  <2> DEFINE u == [s EXCEPT !.status = t.status]
  <2>5. u.grp = s.grp /\ u.hidden = s.hidden
    BY <1>1 DEF Sound, Shaped
  <2>6. s' = t \/ s' = u
    BY <2>4
  <2> HIDE DEF u
  <2>7. s'.grp[w] = s.grp[w] /\ (w \in s'.hidden <=> w \in s.hidden)
    BY <2>3, <2>5, <2>6
  <2> QED
    BY <1>1, <2>7
<1>2. Sound(s) /\ [Next]_svars
        => [\A o \in Outputs :
              (\E w \in s.live \ s.sticky :
                 s.sc[w] # o /\ (s'.grp[w] # s.grp[w]
                                   \/ (w \in s'.hidden) # (w \in s.hidden)))
              => \A n \in Groups : ~KbGroup(o, n) /\ ~KbGroupOnly(o, n)]_svars
  BY <1>1
<1> QED
  BY <1>2, SoundInvariant, PTL DEF Spec, OutputsApart

----------------------------------------------------------------------------
(* The lists, as long as no window has crossed.                            *)

Nodes == Outputs \cup Windows

\* The list of o holds M: at gives its elements in their order, after the head.
Chain(t, o, M, n, at) ==
  /\ n \in Nat /\ at \in [0 .. n -> M \cup {o}]
  /\ at[0] = o
  /\ \A w \in M : \E i \in 1 .. n : at[i] = w
  /\ \A i \in 1 .. n : at[i] \in M
  /\ \A i, j \in 0 .. n : at[i] = at[j] => i = j
  /\ \A i \in 0 .. n : t.nxt[at[i]] = IF i = n THEN Null ELSE at[i + 1]
  /\ \A i \in 1 .. n : t.prv[at[i]] = at[i - 1]
  /\ t.prv[o] = at[n]

Linked(t, o, M) == \E n, at : Chain(t, o, M, n, at)

LinkTypes(t) ==
  /\ Shaped(t)
  /\ t.nxt = [x \in Nodes |-> t.nxt[x]] /\ t.prv = [x \in Nodes |-> t.prv[x]]
  /\ t.freed \subseteq Windows

\* Links that differ at most at X
SameLinks(t, u, X) ==
  /\ LinkTypes(u) /\ u.freed = t.freed /\ u.status = t.status
  /\ SameClients(t, u) /\ u.cycling = t.cycling /\ u.current = t.current
  /\ \A x \in Nodes \ X : u.nxt[x] = t.nxt[x] /\ u.prv[x] = t.prv[x]

\* A list depends on the links of its head and its elements.
LEMMA FrameLinked ==
  ASSUME NEW t, NEW u, NEW X, SameLinks(t, u, X),
         NEW o \in Outputs, NEW M \in SUBSET Windows, (M \cup {o}) \cap X = {},
         Linked(t, o, M)
  PROVE  Linked(u, o, M)
<1>1. PICK n, at : Chain(t, o, M, n, at)
  BY DEF Linked
<1>2. \A i \in 0 .. n : at[i] \in Nodes \ X
  BY <1>1 DEF Chain, Nodes
<1>3. o \in Nodes \ X
  BY DEF Nodes
<1>4. \A i \in 1 .. n : i \in 0 .. n
  BY <1>1 DEF Chain
<1>5. \A i \in 0 .. n : u.nxt[at[i]] = t.nxt[at[i]] /\ u.prv[at[i]] = t.prv[at[i]]
  BY <1>2 DEF SameLinks
<1>6. u.prv[o] = t.prv[o]
  BY <1>3 DEF SameLinks
<1>7. Chain(u, o, M, n, at)
  BY <1>1, <1>4, <1>5, <1>6 DEF Chain
<1> QED
  BY <1>7 DEF Linked

\* Touching clients that are not freed changes nothing.
LEMMA TouchLive ==
  ASSUME NEW t, NEW X, X \cap t.freed = {}
  PROVE  Touch(t, X) = t
BY DEF Touch

\* Names apart from each other
LEMMA Apart ==
  ASSUME NEW o \in Outputs, NEW M \in SUBSET Windows
  PROVE  Null \notin M \cup {o} /\ o \notin M /\ M \cup {o} \subseteq Nodes
BY ScreensAssumption DEF Nodes

\* TAILQ_REMOVE
LEMMA UnlinkLinked ==
  ASSUME NEW t, LinkTypes(t), NEW o \in Outputs, NEW M \in SUBSET Windows,
         M \cap t.freed = {}, Linked(t, o, M), NEW e \in M
  PROVE  /\ Linked(Unlink(t, o, e), o, M \ {e})
         /\ SameLinks(t, Unlink(t, o, e), M \cup {o})
<1>1. PICK n, at : Chain(t, o, M, n, at)
  BY DEF Linked
<1>2. PICK i \in 1 .. n : at[i] = e
  BY <1>1 DEF Chain
<1>3. n \in Nat /\ i \in 0 .. n /\ i - 1 \in 0 .. n /\ n - 1 \in Nat
      /\ (i # n => i + 1 \in 1 .. n)
  BY <1>1 DEF Chain
<1> DEFINE next == IF i = n THEN Null ELSE at[i + 1]
           back == at[i - 1]
           owner == IF i = n THEN o ELSE at[i + 1]
           u == [t EXCEPT !.prv = [@ EXCEPT ![owner] = back],
                          !.nxt = [@ EXCEPT ![back] = next]]
           bt == [j \in 0 .. n - 1 |-> IF j < i THEN at[j] ELSE at[j + 1]]
<1>4. t.nxt[e] = next /\ t.prv[e] = back
  BY <1>1, <1>2, <1>3 DEF Chain
<1>5. /\ Null \notin M \cup {o} /\ o \notin M /\ M \cup {o} \subseteq Nodes
      /\ o \notin t.freed /\ Null \notin t.freed
  BY Apart, ScreensAssumption DEF LinkTypes
<1>6. /\ back \in M \cup {o} /\ owner \in M \cup {o} /\ next \in M \cup {Null}
      /\ next # Null <=> i # n
  <2>1. \A j \in 0 .. n : at[j] \in M \cup {o}
    BY <1>1 DEF Chain
  <2>2. i # n => at[i + 1] \in M
    BY <1>1, <1>3 DEF Chain
  <2> QED BY <1>3, <1>5, <2>1, <2>2
<1>7. Unlink(t, o, e) = u
  <2>1. {next, back} \cap t.freed = {}
    BY <1>5, <1>6
  <2>2. Touch(t, {next, back}) = t
    BY <2>1, TouchLive
  <2>3. owner = IF next # Null THEN next ELSE o
    BY <1>6
  <2> HIDE DEF next, back, owner
  <2> QED
    BY <1>4, <2>2, <2>3 DEF Unlink
<1> DEFINE np == [t.prv EXCEPT ![owner] = back]
           nn == [t.nxt EXCEPT ![back] = next]
<1>8. /\ Shaped(u) /\ u.prv = np /\ u.nxt = nn /\ u.freed = t.freed
      /\ u.status = t.status /\ SameClients(t, u) /\ u.cycling = t.cycling
      /\ u.current = t.current
  <2>1. Shaped(t) /\ u = [t EXCEPT !.prv = np, !.nxt = nn]
    BY DEF LinkTypes
  <2> HIDE DEF u, np, nn
  <2> QED BY <2>1 DEF Shaped, SameClients
<1> HIDE DEF u
<1>9. /\ \A x \in Nodes : /\ np[x] = IF x = owner THEN back ELSE t.prv[x]
                          /\ nn[x] = IF x = back THEN next ELSE t.nxt[x]
      /\ np = [x \in Nodes |-> np[x]] /\ nn = [x \in Nodes |-> nn[x]]
  BY DEF LinkTypes
<1> HIDE DEF np, nn, next, back, owner
<1>10. SameLinks(t, u, M \cup {o})
  BY <1>6, <1>8, <1>9 DEF SameLinks, LinkTypes
<1>11. Chain(u, o, M \ {e}, n - 1, bt)
  <2>1. /\ \A j \in 0 .. n - 1 : j < i => j \in 0 .. n /\ bt[j] = at[j]
        /\ \A j \in 0 .. n - 1 : ~(j < i) => j + 1 \in 0 .. n /\ j + 1 # i /\ bt[j] = at[j + 1]
    BY <1>3
  <2>2. \A j \in 0 .. n : at[j] = e <=> j = i
    BY <1>1, <1>2, <1>3 DEF Chain
  <2>3. e # o
    BY <1>5
  <2>4. bt \in [0 .. n - 1 -> (M \ {e}) \cup {o}] /\ bt[0] = o
    <3>1. \A j \in 0 .. n - 1 : bt[j] \in (M \ {e}) \cup {o}
      BY <1>1, <1>3, <2>1, <2>2, <2>3 DEF Chain
    <3>2. 0 \in 0 .. n - 1 /\ 0 < i
      BY <1>3
    <3>3. bt[0] = o
      BY <1>1, <2>1, <3>2 DEF Chain
    <3> QED BY <3>1, <3>3
  <2>5. \A w \in M \ {e} : \E j \in 1 .. n - 1 : bt[j] = w
    <3> SUFFICES ASSUME NEW w \in M \ {e} PROVE \E j \in 1 .. n - 1 : bt[j] = w
      OBVIOUS
    <3>1. PICK k \in 1 .. n : at[k] = w
      BY <1>1 DEF Chain
    <3>2. k # i
      BY <1>2, <3>1
    <3>3. CASE k < i
      <4>1. k \in 0 .. n - 1 /\ k \in 1 .. n - 1
        BY <1>3, <3>3
      <4> QED BY <2>1, <3>1, <3>3, <4>1
    <3>4. CASE k > i
      <4>1. k - 1 \in 0 .. n - 1 /\ k - 1 \in 1 .. n - 1 /\ ~(k - 1 < i)
            /\ (k - 1) + 1 = k
        BY <1>3, <3>4
      <4> QED BY <2>1, <3>1, <4>1
    <3> QED BY <3>2, <3>3, <3>4
  <2>6. \A j \in 1 .. n - 1 : bt[j] \in M \ {e}
    <3> SUFFICES ASSUME NEW j \in 1 .. n - 1 PROVE bt[j] \in M \ {e}
      OBVIOUS
    <3>1. j \in 1 .. n /\ j + 1 \in 1 .. n /\ j \in 0 .. n - 1
      BY <1>3
    <3> QED BY <1>1, <2>1, <2>2, <3>1 DEF Chain
  <2>7. \A j, k \in 0 .. n - 1 : bt[j] = bt[k] => j = k
    <3> SUFFICES ASSUME NEW j \in 0 .. n - 1, NEW k \in 0 .. n - 1, bt[j] = bt[k]
                 PROVE  j = k
      OBVIOUS
    <3> DEFINE p == IF j < i THEN j ELSE j + 1
               q == IF k < i THEN k ELSE k + 1
    <3>1. p \in 0 .. n /\ q \in 0 .. n /\ bt[j] = at[p] /\ bt[k] = at[q]
      BY <2>1
    <3>2. p = q
      BY <1>1, <3>1 DEF Chain
    <3> QED BY <1>3, <3>2
  <2>8. ASSUME NEW j \in 0 .. n - 1
        PROVE  u.nxt[bt[j]] = IF j = n - 1 THEN Null ELSE bt[j + 1]
    <3>1. bt[j] \in Nodes
      BY <1>5, <2>4
    <3>2. u.nxt[bt[j]] = IF bt[j] = back THEN next ELSE t.nxt[bt[j]]
      BY <1>8, <1>9, <3>1
    <3>3. j + 1 < n => j + 1 \in 0 .. n - 1
      BY <1>3
    <3>4. CASE j < i - 1
      <4>1. j \in 0 .. n /\ bt[j] = at[j] /\ j # i - 1 /\ j # n - 1 /\ j # n
            /\ j + 1 \in 0 .. n - 1 /\ j + 1 < i
        BY <1>3, <2>1, <3>4
      <4>2. bt[j] # back
        BY <1>1, <1>3, <4>1 DEF Chain, back
      <4>3. t.nxt[at[j]] = at[j + 1] /\ bt[j + 1] = at[j + 1]
        BY <1>1, <2>1, <4>1 DEF Chain
      <4> QED BY <3>2, <4>1, <4>2, <4>3
    <3>5. CASE j = i - 1
      <4>1. bt[j] = back
        BY <1>3, <2>1, <3>5 DEF back
      <4>2. CASE i = n
        BY <1>3, <3>2, <3>5, <4>1, <4>2 DEF next
      <4>3. CASE i # n
        <5>1. i \in 0 .. n - 1 /\ ~(i < i) /\ j + 1 = i /\ j # n - 1
          BY <1>3, <3>5, <4>3
        <5>2. bt[i] = at[i + 1]
          BY <2>1, <5>1
        <5> QED BY <3>2, <4>1, <4>3, <5>1, <5>2 DEF next
      <4> QED BY <4>2, <4>3
    <3>6. CASE j >= i
      <4>1. j + 1 \in 0 .. n /\ bt[j] = at[j + 1] /\ j + 1 # i - 1
            /\ (j + 1 = n <=> j = n - 1)
        BY <1>3, <2>1, <3>6
      <4>2. bt[j] # back
        BY <1>1, <1>3, <4>1 DEF Chain, back
      <4>3. t.nxt[at[j + 1]] = IF j = n - 1 THEN Null ELSE at[(j + 1) + 1]
        BY <1>1, <4>1 DEF Chain
      <4>4. j # n - 1 => j + 1 \in 0 .. n - 1 /\ ~(j + 1 < i)
        BY <1>3, <3>6
      <4>5. j # n - 1 => bt[j + 1] = at[(j + 1) + 1]
        BY <2>1, <4>4
      <4> QED BY <3>2, <4>1, <4>2, <4>3, <4>5
    <3> QED BY <1>3, <3>4, <3>5, <3>6
  <2>9. ASSUME NEW j \in 1 .. n - 1
        PROVE  u.prv[bt[j]] = bt[j - 1]
    <3>1. /\ bt[j] \in Nodes /\ j \in 0 .. n - 1 /\ j - 1 \in 0 .. n - 1
          /\ j \in 1 .. n /\ j + 1 \in 1 .. n /\ j \in 0 .. n /\ j + 1 \in 0 .. n
      <4>1. bt[j] \in Nodes
        BY <1>5, <2>6
      <4> QED BY <1>3, <4>1
    <3>2. u.prv[bt[j]] = IF bt[j] = owner THEN back ELSE t.prv[bt[j]]
      BY <1>8, <1>9, <3>1
    <3>3. CASE j < i
      <4>1. bt[j] = at[j] /\ bt[j - 1] = at[j - 1] /\ j # i + 1
        BY <1>3, <2>1, <3>1, <3>3
      <4>2. bt[j] # owner
        BY <1>1, <1>3, <1>5, <2>6, <3>1, <4>1 DEF Chain, owner
      <4>3. t.prv[at[j]] = at[j - 1]
        BY <1>1, <3>1 DEF Chain
      <4> QED BY <3>2, <4>1, <4>2, <4>3
    <3>4. CASE j = i
      <4>1. bt[j] = at[i + 1] /\ i # n /\ bt[j - 1] = at[i - 1]
        BY <1>3, <2>1, <3>1, <3>4
      <4>2. bt[j] = owner
        BY <4>1 DEF owner
      <4> QED BY <3>2, <4>1, <4>2 DEF back
    <3>5. CASE j > i
      <4>1. bt[j] = at[j + 1] /\ bt[j - 1] = at[(j - 1) + 1] /\ j + 1 # i + 1
            /\ (j - 1) + 1 = j /\ (j + 1) - 1 = j
        BY <1>3, <2>1, <3>1, <3>5
      <4>2. bt[j] # owner
        BY <1>1, <1>3, <1>5, <2>6, <3>1, <4>1 DEF Chain, owner
      <4>3. t.prv[at[j + 1]] = at[(j + 1) - 1]
        BY <1>1, <3>1 DEF Chain
      <4> QED BY <3>2, <4>1, <4>2, <4>3
    <3> QED BY <1>3, <3>3, <3>4, <3>5
  <2>10. u.prv[o] = bt[n - 1]
    <3>1. u.prv[o] = IF o = owner THEN back ELSE t.prv[o]
      BY <1>5, <1>8, <1>9
    <3>2. CASE i = n
      <4>1. n - 1 \in 0 .. n - 1 /\ n - 1 < i
        BY <1>3, <3>2
      <4> QED BY <2>1, <3>1, <3>2, <4>1 DEF owner, back
    <3>3. CASE i # n
      <4>1. n - 1 \in 0 .. n - 1 /\ ~(n - 1 < i) /\ (n - 1) + 1 = n
        BY <1>3, <3>3
      <4>2. owner \in M
        BY <1>1, <1>3, <3>3 DEF Chain, owner
      <4> QED BY <1>1, <1>5, <2>1, <3>1, <4>1, <4>2 DEF Chain
    <3> QED BY <3>2, <3>3
  <2> HIDE DEF bt
  <2> QED BY <1>3, <2>4, <2>5, <2>6, <2>7, <2>8, <2>9, <2>10 DEF Chain
<1> QED
  BY <1>7, <1>10, <1>11 DEF Linked

\* TAILQ_INSERT_TAIL
LEMMA InsertTailLinked ==
  ASSUME NEW t, LinkTypes(t), NEW o \in Outputs, NEW M \in SUBSET Windows,
         M \cap t.freed = {}, Linked(t, o, M), NEW e \in Windows, e \notin M
  PROVE  /\ Linked(InsertTail(t, o, e), o, M \cup {e})
         /\ SameLinks(t, InsertTail(t, o, e), (M \cup {e}) \cup {o})
<1>1. PICK n, at : Chain(t, o, M, n, at)
  BY DEF Linked
<1>2. n \in Nat /\ n + 1 \in Nat /\ n \in 0 .. n
  BY <1>1 DEF Chain
<1> DEFINE K == M \cup {e}
           last == at[n]
           np == [t.prv EXCEPT ![e] = last, ![o] = e]
           nn == [t.nxt EXCEPT ![e] = Null, ![last] = e]
           u == [t EXCEPT !.nxt = nn, !.prv = np]
           bt == [j \in 0 .. n + 1 |-> IF j <= n THEN at[j] ELSE e]
<1>3. /\ Null \notin K \cup {o} /\ o \notin K /\ K \cup {o} \subseteq Nodes
      /\ o \notin t.freed /\ o # e
  BY Apart, ScreensAssumption DEF LinkTypes
<1>4. t.prv[o] = last /\ last \in M \cup {o} /\ last # e /\ last \in Nodes
  BY <1>1, <1>2, <1>3 DEF Chain
<1>5. InsertTail(t, o, e) = u
  <2>1. {last} \cap t.freed = {}
    BY <1>3, <1>4
  <2>2. Touch(t, {last}) = t
    BY <2>1, TouchLive
  <2> HIDE DEF last
  <2> QED
    BY <1>4, <2>2 DEF InsertTail
<1>6. /\ Shaped(u) /\ u.prv = np /\ u.nxt = nn /\ u.freed = t.freed
      /\ u.status = t.status /\ SameClients(t, u) /\ u.cycling = t.cycling
      /\ u.current = t.current
  <2>1. Shaped(t) /\ u = [t EXCEPT !.nxt = nn, !.prv = np]
    BY DEF LinkTypes
  <2> HIDE DEF u, np, nn
  <2> QED BY <2>1 DEF Shaped, SameClients
<1> HIDE DEF u
<1>7. /\ \A x \in Nodes :
           /\ np[x] = IF x = o THEN e ELSE IF x = e THEN last ELSE t.prv[x]
           /\ nn[x] = IF x = last THEN e ELSE IF x = e THEN Null ELSE t.nxt[x]
      /\ np = [x \in Nodes |-> np[x]] /\ nn = [x \in Nodes |-> nn[x]]
  <2>1. e \in Nodes /\ o \in Nodes /\ last \in Nodes
    BY <1>3, <1>4
  <2> HIDE DEF last
  <2> QED BY <2>1 DEF LinkTypes
<1> HIDE DEF np, nn
<1>8. SameLinks(t, u, K \cup {o})
  <2>1. \A x \in Nodes \ (K \cup {o}) : x # o /\ x # e /\ x # last
    BY <1>4
  <2> HIDE DEF last
  <2> QED BY <1>6, <1>7, <2>1 DEF SameLinks, LinkTypes
<1>9. Chain(u, o, K, n + 1, bt)
  <2>1. /\ \A j \in 0 .. n : j \in 0 .. n + 1 /\ bt[j] = at[j]
        /\ bt[n + 1] = e /\ n + 1 \in 0 .. n + 1 /\ n + 1 \in 1 .. n + 1
        /\ \A j \in 0 .. n + 1 : j \in 0 .. n \/ j = n + 1
        /\ \A j \in 1 .. n + 1 : j \in 1 .. n \/ j = n + 1
    BY <1>2
  <2>2. bt = [j \in 0 .. n + 1 |-> bt[j]]
    OBVIOUS
  <2> HIDE DEF bt
  <2>3. /\ \A j \in 0 .. n : at[j] \in M \cup {o} /\ at[j] \in Nodes
        /\ \A j \in 1 .. n : at[j] \in M /\ at[j] # o /\ j \in 0 .. n /\ j - 1 \in 0 .. n
        /\ at[0] = o
    BY <1>1, <1>3 DEF Chain
  <2>4. bt \in [0 .. n + 1 -> K \cup {o}] /\ bt[0] = o
    <3>1. \A j \in 0 .. n + 1 : bt[j] \in K \cup {o}
      BY <2>1, <2>3
    <3>2. 0 \in 0 .. n
      BY <1>2
    <3> QED BY <2>1, <2>2, <2>3, <3>1, <3>2
  <2>5. \A w \in K : \E j \in 1 .. n + 1 : bt[j] = w
    <3> SUFFICES ASSUME NEW w \in K PROVE \E j \in 1 .. n + 1 : bt[j] = w
      OBVIOUS
    <3>1. CASE w = e
      BY <2>1, <3>1
    <3>2. CASE w \in M
      <4>1. PICK k \in 1 .. n : at[k] = w
        BY <1>1, <3>2 DEF Chain
      <4>2. k \in 0 .. n /\ k \in 1 .. n + 1
        BY <1>2
      <4> QED BY <2>1, <4>1, <4>2
    <3> QED BY <3>1, <3>2
  <2>6. \A j \in 1 .. n + 1 : bt[j] \in K
    BY <2>1, <2>3
  <2>7. \A j, k \in 0 .. n + 1 : bt[j] = bt[k] => j = k
    <3>1. \A j, k \in 0 .. n : bt[j] = bt[k] => j = k
      BY <1>1, <2>1 DEF Chain
    <3>2. \A j \in 0 .. n : bt[j] # bt[n + 1]
      BY <1>3, <2>1, <2>3
    <3> QED BY <2>1, <3>1, <3>2
  <2>8. ASSUME NEW j \in 0 .. n + 1
        PROVE  u.nxt[bt[j]] = IF j = n + 1 THEN Null ELSE bt[j + 1]
    <3>1. CASE j = n + 1
      BY <1>3, <1>4, <1>6, <1>7, <2>1, <3>1
    <3>2. CASE j = n
      BY <1>2, <1>4, <1>6, <1>7, <2>1, <3>2
    <3>3. CASE j \in 0 .. n /\ j # n
      <4>1. j + 1 \in 0 .. n /\ j # n + 1
        BY <1>2, <3>3
      <4>2. at[j] # last /\ at[j] # e /\ at[j] \in Nodes
        BY <1>1, <1>2, <1>3, <2>3, <3>3 DEF Chain
      <4>3. t.nxt[at[j]] = at[j + 1]
        BY <1>1, <3>3 DEF Chain
      <4> QED BY <1>6, <1>7, <2>1, <3>3, <4>1, <4>2, <4>3
    <3> QED BY <2>1, <3>1, <3>2, <3>3
  <2>9. ASSUME NEW j \in 1 .. n + 1
        PROVE  u.prv[bt[j]] = bt[j - 1]
    <3>1. CASE j = n + 1
      <4>1. j - 1 = n
        BY <1>2, <3>1
      <4> QED BY <1>2, <1>3, <1>6, <1>7, <2>1, <3>1, <4>1
    <3>2. CASE j \in 1 .. n
      <4>1. at[j] # o /\ at[j] # e /\ at[j] \in Nodes
        BY <1>3, <2>3, <3>2
      <4>2. t.prv[at[j]] = at[j - 1]
        BY <1>1, <3>2 DEF Chain
      <4> QED BY <1>6, <1>7, <2>1, <2>3, <3>2, <4>1, <4>2
    <3> QED BY <2>1, <3>1, <3>2
  <2>10. u.prv[o] = bt[n + 1]
    BY <1>3, <1>6, <1>7, <2>1
  <2> QED BY <1>2, <2>4, <2>5, <2>6, <2>7, <2>8, <2>9, <2>10 DEF Chain
<1> QED
  BY <1>5, <1>8, <1>9 DEF Linked

\* TAILQ_INSERT_HEAD
LEMMA InsertHeadLinked ==
  ASSUME NEW t, LinkTypes(t), NEW o \in Outputs, NEW M \in SUBSET Windows,
         M \cap t.freed = {}, Linked(t, o, M), NEW e \in Windows, e \notin M
  PROVE  /\ Linked(InsertHead(t, o, e), o, M \cup {e})
         /\ SameLinks(t, InsertHead(t, o, e), (M \cup {e}) \cup {o})
<1>1. PICK n, at : Chain(t, o, M, n, at)
  BY DEF Linked
<1>2. n \in Nat /\ n + 1 \in Nat /\ n \in 0 .. n /\ 0 \in 0 .. n
      /\ (n # 0 => 1 \in 1 .. n /\ 1 \in 0 .. n)
  BY <1>1 DEF Chain
<1> DEFINE K == M \cup {e}
           first == IF n = 0 THEN Null ELSE at[1]
           owner == IF n = 0 THEN o ELSE at[1]
           np == [t.prv EXCEPT ![owner] = e, ![e] = o]
           nn == [t.nxt EXCEPT ![e] = first, ![o] = e]
           u == [t EXCEPT !.nxt = nn, !.prv = np]
           bt == [j \in 0 .. n + 1 |-> IF j = 0 THEN o ELSE IF j = 1 THEN e ELSE at[j - 1]]
<1>3. /\ Null \notin K \cup {o} /\ o \notin K /\ K \cup {o} \subseteq Nodes
      /\ o \notin t.freed /\ Null \notin t.freed /\ o # e
  BY Apart, ScreensAssumption DEF LinkTypes
<1>4. /\ t.nxt[o] = first /\ first \in M \cup {Null}
      /\ owner = IF first # Null THEN first ELSE o
      /\ owner \in M \cup {o} /\ owner # e /\ owner \in Nodes
  <2>1. t.nxt[at[0]] = IF 0 = n THEN Null ELSE at[0 + 1]
    BY <1>1, <1>2 DEF Chain
  <2>2. at[0] = o /\ (n # 0 => at[1] \in M)
    BY <1>1, <1>2 DEF Chain
  <2> QED BY <1>3, <2>1, <2>2
<1>5. InsertHead(t, o, e) = u
  <2>1. {first} \cap t.freed = {}
    BY <1>3, <1>4
  <2>2. Touch(t, {first}) = t
    BY <2>1, TouchLive
  <2> HIDE DEF first, owner
  <2> QED
    BY <1>4, <2>2 DEF InsertHead
<1>6. /\ Shaped(u) /\ u.prv = np /\ u.nxt = nn /\ u.freed = t.freed
      /\ u.status = t.status /\ SameClients(t, u) /\ u.cycling = t.cycling
      /\ u.current = t.current
  <2>1. Shaped(t) /\ u = [t EXCEPT !.nxt = nn, !.prv = np]
    BY DEF LinkTypes
  <2> HIDE DEF u, np, nn
  <2> QED BY <2>1 DEF Shaped, SameClients
<1> HIDE DEF u
<1>7. /\ \A x \in Nodes :
           /\ np[x] = IF x = e THEN o ELSE IF x = owner THEN e ELSE t.prv[x]
           /\ nn[x] = IF x = o THEN e ELSE IF x = e THEN first ELSE t.nxt[x]
      /\ np = [x \in Nodes |-> np[x]] /\ nn = [x \in Nodes |-> nn[x]]
  <2>1. e \in Nodes /\ o \in Nodes /\ owner \in Nodes
    BY <1>3, <1>4
  <2> HIDE DEF owner, first
  <2> QED BY <2>1 DEF LinkTypes
<1> HIDE DEF np, nn
<1>8. SameLinks(t, u, K \cup {o})
  <2>1. \A x \in Nodes \ (K \cup {o}) : x # o /\ x # e /\ x # owner
    BY <1>4
  <2> HIDE DEF owner, first
  <2> QED BY <1>6, <1>7, <2>1 DEF SameLinks, LinkTypes
<1>9. Chain(u, o, K, n + 1, bt)
  <2>1. /\ \A j \in 1 .. n : j + 1 \in 1 .. n + 1 /\ bt[j + 1] = at[j]
        /\ bt[0] = o /\ bt[1] = e /\ 1 \in 1 .. n + 1
        /\ \A j \in 0 .. n + 1 : j = 0 \/ j = 1 \/ (j - 1 \in 1 .. n /\ bt[j] = at[j - 1])
        /\ \A j \in 1 .. n + 1 : j = 1 \/ (j - 1 \in 1 .. n /\ bt[j] = at[j - 1])
    BY <1>2
  <2>2. bt = [j \in 0 .. n + 1 |-> bt[j]]
    OBVIOUS
  <2> HIDE DEF bt
  <2>3. /\ \A j \in 1 .. n : at[j] \in M /\ at[j] # o /\ at[j] # e /\ at[j] \in Nodes /\ j \in 0 .. n
        /\ at[0] = o
    BY <1>1, <1>3 DEF Chain
  <2>4. bt \in [0 .. n + 1 -> K \cup {o}] /\ bt[0] = o
    <3>1. \A j \in 0 .. n + 1 : bt[j] \in K \cup {o}
      BY <2>1, <2>3
    <3> QED BY <2>1, <2>2, <3>1
  <2>5. \A w \in K : \E j \in 1 .. n + 1 : bt[j] = w
    <3> SUFFICES ASSUME NEW w \in K PROVE \E j \in 1 .. n + 1 : bt[j] = w
      OBVIOUS
    <3>1. CASE w = e
      BY <2>1, <3>1
    <3>2. CASE w \in M
      <4>1. PICK k \in 1 .. n : at[k] = w
        BY <1>1, <3>2 DEF Chain
      <4> QED BY <2>1, <4>1
    <3> QED BY <3>1, <3>2
  <2>6. \A j \in 1 .. n + 1 : bt[j] \in K
    BY <2>1, <2>3
  <2>7. \A j, k \in 0 .. n + 1 : bt[j] = bt[k] => j = k
    <3> SUFFICES ASSUME NEW j \in 0 .. n + 1, NEW k \in 0 .. n + 1, bt[j] = bt[k]
                 PROVE  j = k
      OBVIOUS
    <3>1. CASE j - 1 \in 1 .. n /\ k - 1 \in 1 .. n /\ bt[j] = at[j - 1] /\ bt[k] = at[k - 1]
      <4>1. j - 1 \in 0 .. n /\ k - 1 \in 0 .. n /\ at[j - 1] = at[k - 1]
        BY <2>3, <3>1
      <4>2. j - 1 = k - 1
        BY <1>1, <4>1 DEF Chain
      <4> QED BY <4>2
    <3>2. CASE j \in {0, 1} \/ k \in {0, 1}
      BY <1>3, <2>1, <2>3, <3>2
    <3> QED BY <2>1, <3>1, <3>2
  <2>8. ASSUME NEW j \in 0 .. n + 1
        PROVE  u.nxt[bt[j]] = IF j = n + 1 THEN Null ELSE bt[j + 1]
    <3>1. CASE j = 0
      <4>1. j # n + 1 /\ j + 1 = 1
        BY <1>2, <3>1
      <4> QED BY <1>3, <1>6, <1>7, <2>1, <3>1, <4>1
    <3>2. CASE j = 1
      <4>1. u.nxt[bt[j]] = first
        BY <1>3, <1>6, <1>7, <2>1, <3>2
      <4>2. CASE n = 0
        BY <3>2, <4>1, <4>2
      <4>3. CASE n # 0
        <5>1. j # n + 1 /\ bt[1 + 1] = at[1]
          BY <1>2, <2>1, <3>2, <4>3
        <5> QED BY <3>2, <4>1, <4>3, <5>1
      <4> QED BY <4>2, <4>3
    <3>3. CASE j - 1 \in 1 .. n /\ bt[j] = at[j - 1]
      <4>1. t.nxt[at[j - 1]] = IF j - 1 = n THEN Null ELSE at[(j - 1) + 1]
        BY <1>1, <2>3, <3>3 DEF Chain
      <4>2. u.nxt[bt[j]] = t.nxt[at[j - 1]]
        BY <1>6, <1>7, <2>3, <3>3
      <4>3. (j - 1) + 1 = j /\ (j - 1 = n <=> j = n + 1) /\ (j # n + 1 => j \in 1 .. n)
        BY <1>2, <3>3
      <4> QED BY <2>1, <4>1, <4>2, <4>3
    <3> QED BY <2>1, <3>1, <3>2, <3>3
  <2>9. ASSUME NEW j \in 1 .. n + 1
        PROVE  u.prv[bt[j]] = bt[j - 1]
    <3>1. CASE j = 1
      <4>1. j - 1 = 0
        BY <3>1
      <4> QED BY <1>3, <1>6, <1>7, <2>1, <3>1, <4>1
    <3>2. CASE j - 1 \in 1 .. n /\ bt[j] = at[j - 1]
      <4>1. t.prv[at[j - 1]] = at[(j - 1) - 1]
        BY <1>1, <3>2 DEF Chain
      <4>2. u.prv[bt[j]] = IF at[j - 1] = owner THEN e ELSE t.prv[at[j - 1]]
        BY <1>6, <1>7, <2>3, <3>2
      <4>3. n # 0 /\ owner = at[1]
        BY <3>2
      <4>4. CASE j = 2
        BY <2>1, <4>2, <4>3, <4>4
      <4>5. CASE j # 2
        <5>1. (j - 1) - 1 \in 1 .. n /\ ((j - 1) - 1) + 1 = j - 1 /\ j - 1 # 1
          BY <1>2, <3>2, <4>5
        <5>2. at[j - 1] # at[1]
          BY <1>1, <1>2, <2>3, <3>2, <4>3, <5>1 DEF Chain
        <5>3. bt[((j - 1) - 1) + 1] = at[(j - 1) - 1]
          BY <2>1, <5>1
        <5> QED BY <4>1, <4>2, <4>3, <5>1, <5>2, <5>3
      <4> QED BY <4>4, <4>5
    <3> QED BY <2>1, <3>1, <3>2
  <2>10. u.prv[o] = bt[n + 1]
    <3>1. u.prv[o] = IF o = owner THEN e ELSE t.prv[o]
      BY <1>3, <1>6, <1>7
    <3>2. CASE n = 0
      BY <2>1, <3>1, <3>2
    <3>3. CASE n # 0
      <4>1. n \in 1 .. n
        BY <1>2, <3>3
      <4>2. bt[n + 1] = at[n] /\ o # owner
        BY <1>2, <2>1, <2>3, <3>3, <4>1
      <4> QED BY <1>1, <3>1, <4>2 DEF Chain
    <3> QED BY <3>2, <3>3
  <2> QED BY <1>2, <2>4, <2>5, <2>6, <2>7, <2>8, <2>9, <2>10 DEF Chain
<1> QED
  BY <1>5, <1>8, <1>9 DEF Linked

\* A list has as many elements as its set, which are no more than the windows.
LEMMA ChainLength ==
  ASSUME NEW t, NEW o \in Outputs, NEW M \in SUBSET Windows,
         NEW n, NEW at, Chain(t, o, M, n, at)
  PROVE  n = Cardinality(M) /\ n \in 0 .. N /\ N \in Nat
<1> DEFINE f == [i \in 1 .. n |-> at[i]]
<1>1. n \in Nat
  BY DEF Chain
<1>2. \A i, j \in 1 .. n : f[i] = f[j] => i = j
  <2>1. \A i \in 1 .. n : i \in 0 .. n
    BY <1>1
  <2> QED BY <2>1 DEF Chain
<1>3. f \in [1 .. n -> M]
  BY DEF Chain
<1>4. \A w \in M : \E i \in 1 .. n : f[i] = w
  BY DEF Chain
<1> HIDE DEF f
<1>5. f \in Bijection(1 .. n, M)
  BY <1>2, <1>3, <1>4 DEF Bijection, Injection, Surjection, IsInjective
<1>6. Cardinality(M) = n
  <2>1. ExistsBijection(1 .. n, M)
    BY <1>5 DEF ExistsBijection
  <2> QED BY <1>1, <2>1, FS_CountingElements
<1>7. Cardinality(Windows) \in Nat /\ Cardinality(M) <= Cardinality(Windows)
  BY ScreensAssumption, FS_Subset, FS_CardinalityType
<1> QED
  BY <1>1, <1>6, <1>7 DEF N

\* TAILQ_FOREACH goes through the list and then ends.
LEMMA AfterChain ==
  ASSUME NEW t, NEW o \in Outputs, NEW M \in SUBSET Windows,
         NEW n, NEW at, Chain(t, o, M, n, at)
  PROVE  \A k \in 0 .. N + 1 : After(t, o)[k] = IF k <= n THEN at[k] ELSE Null
<1> DEFINE Step(y) == IF y = Null THEN Null ELSE t.nxt[y]
           Is(g) == g = [k \in 0 .. N + 1 |-> IF k = 0 THEN o ELSE Step(g[k - 1])]
           it == CHOOSE g : Is(g)
           V(k) == IF k <= n THEN at[k] ELSE Null
           f == [k \in 0 .. N + 1 |-> V(k)]
<1>1. After(t, o) = it
  BY Zenon DEF After
<1>2. n \in 0 .. N /\ N \in Nat
  BY ChainLength
<1>3. ASSUME NEW k \in 0 .. N + 1, k # 0
      PROVE  V(k) = Step(V(k - 1))
  <2>1. Null \notin M \cup {o}
    BY Apart
  <2>2. CASE k <= n
    <3>1. k - 1 \in 0 .. n /\ k - 1 # n /\ (k - 1) + 1 = k /\ k - 1 <= n
      BY <1>2, <1>3, <2>2
    <3>2. at[k - 1] \in M \cup {o} /\ t.nxt[at[k - 1]] = at[(k - 1) + 1]
      BY <3>1 DEF Chain
    <3> QED BY <2>1, <2>2, <3>1, <3>2
  <2>3. CASE k = n + 1
    <3>1. k - 1 = n /\ n \in 0 .. n /\ ~(k <= n) /\ n <= n
      BY <1>2, <2>3
    <3>2. at[n] \in M \cup {o} /\ t.nxt[at[n]] = Null
      BY <3>1 DEF Chain
    <3> QED BY <2>1, <3>1, <3>2
  <2>4. CASE k > n + 1
    <3>1. ~(k <= n) /\ ~(k - 1 <= n)
      BY <1>2, <2>4
    <3> QED BY <3>1
  <2> QED BY <1>2, <2>2, <2>3, <2>4
<1>4. V(0) = o
  BY <1>2 DEF Chain
<1>5. Is(f)
  <2>1. \A k \in 0 .. N + 1 : k # 0 => k - 1 \in 0 .. N + 1
    BY <1>2
  <2> HIDE DEF V, Step
  <2>2. \A k \in 0 .. N + 1 : V(k) = IF k = 0 THEN o ELSE Step(V(k - 1))
    BY <1>3, <1>4
  <2>3. \A k \in 0 .. N + 1 : k # 0 => f[k - 1] = V(k - 1)
    BY <2>1
  <2>4. \A k \in 0 .. N + 1 : V(k) = IF k = 0 THEN o ELSE Step(f[k - 1])
    BY <2>2, <2>3
  <2> QED BY <2>4
<1>6. Is(it)
  <2> HIDE DEF Is, f
  <2> QED BY <1>5
<1> HIDE DEF it
<1>7. it[0] = o /\ \A k \in 0 .. N + 1 : k # 0 => it[k] = Step(it[k - 1])
  <2>1. 0 \in 0 .. N + 1
    BY <1>2
  <2> HIDE DEF Step
  <2> QED BY <1>6, <2>1
<1> DEFINE U == {k \in 0 .. N + 1 : it[k] = V(k)}
<1>8. 0 \in U
  BY <1>2, <1>4, <1>7
<1>9. ASSUME NEW k \in 0 .. (N + 1) - 1, k \in U
      PROVE  k + 1 \in U
  <2>1. k + 1 \in 0 .. N + 1 /\ k + 1 # 0 /\ (k + 1) - 1 = k
    BY <1>2
  <2> HIDE DEF V, Step
  <2>2. it[k + 1] = Step(it[k]) /\ V(k + 1) = Step(V(k))
    BY <1>3, <1>7, <2>1
  <2> QED BY <1>9, <2>1, <2>2
<1> HIDE DEF U
<1>10. \A k \in 0 .. N + 1 : k \in U
  BY <1>2, <1>8, <1>9, IntervalSets
<1> QED
  BY <1>1, <1>10 DEF U

\* Whoever walks a list meets its elements, and comes to its end.
LEMMA WalkedLinked ==
  ASSUME NEW t, NEW o \in Outputs, NEW M \in SUBSET Windows, M \cap t.freed = {},
         Linked(t, o, M)
  PROVE  Members(t, o) = M /\ Walked(t, o) = t
<1>1. PICK n, at : Chain(t, o, M, n, at)
  BY DEF Linked
<1>2. n \in 0 .. N /\ N \in Nat
  BY <1>1, ChainLength
<1>3. \A k \in 0 .. N + 1 : After(t, o)[k] = IF k <= n THEN at[k] ELSE Null
  BY <1>1, AfterChain
<1>4. ~Endless(t, o)
  <2>1. N + 1 \in 0 .. N + 1 /\ ~(N + 1 <= n)
    BY <1>2
  <2> QED BY <1>3, <2>1 DEF Endless
<1>5. Members(t, o) = M
  <2>1. \A k \in 1 .. N : k \in 0 .. N + 1 /\ (k <= n => k \in 1 .. n)
    BY <1>2
  <2>2. \A k \in 1 .. n : k \in 1 .. N /\ k <= n
    BY <1>2
  <2>3. \A k \in 1 .. N : After(t, o)[k] \in M \cup {Null}
    BY <1>1, <1>3, <2>1 DEF Chain
  <2>4. \A w \in M : \E k \in 1 .. N : After(t, o)[k] = w
    <3> SUFFICES ASSUME NEW w \in M PROVE \E k \in 1 .. N : After(t, o)[k] = w
      OBVIOUS
    <3>1. PICK k \in 1 .. n : at[k] = w
      BY <1>1 DEF Chain
    <3> QED BY <1>3, <2>1, <2>2, <3>1
  <2>5. Null \notin M
    BY Apart
  <2> QED BY <2>3, <2>4, <2>5 DEF Members
<1> QED
  BY <1>4, <1>5, TouchLive DEF Walked

\* What client_next and client_prev give in a list
LEMMA Neighbours ==
  ASSUME NEW t, LinkTypes(t), NEW o \in Outputs, NEW M \in SUBSET Windows,
         M \cap t.freed = {}, \A w \in M : t.sc[w] = o,
         NEW n, NEW at, Chain(t, o, M, n, at), n # 0
  PROVE  /\ t.nxt[o] = at[1] /\ Prev(t, o) = at[n]
         /\ \A i \in 1 .. n :
              /\ NextOf(t, at[i]) = IF i = n THEN at[1] ELSE at[i + 1]
              /\ PrevOf(t, at[i]) = IF i = 1 THEN at[n] ELSE at[i - 1]
<1>1. /\ n \in Nat /\ 0 \in 0 .. n /\ 1 \in 1 .. n /\ n \in 1 .. n /\ n - 1 \in 0 .. n
      /\ n \in 0 .. n /\ n - 1 # n /\ (n - 1) + 1 = n
      /\ \A i \in 1 .. n : i \in 0 .. n /\ i - 1 \in 0 .. n /\ (i - 1) + 1 = i /\ i - 1 # n
  BY DEF Chain
<1>2. /\ Null \notin M \cup {o} /\ o \notin M /\ o \notin t.freed
  BY Apart, ScreensAssumption DEF LinkTypes
<1>3. /\ at[0] = o /\ \A i \in 1 .. n : at[i] \in M
      /\ \A i \in 0 .. n : at[i] \in M \cup {o} /\ at[i] \notin t.freed
  BY <1>1, <1>2 DEF Chain
<1>4. t.nxt[o] = at[1]
  BY <1>1, <1>3 DEF Chain
<1>5. Prev(t, o) = at[n]
  <2>1. t.prv[o] = at[n] /\ t.prv[at[n]] = at[n - 1] /\ t.nxt[at[n - 1]] = at[n]
    BY <1>1 DEF Chain
  <2> QED BY <1>1, <1>3, <2>1 DEF Prev
<1>6. ASSUME NEW i \in 1 .. n
      PROVE  NextOf(t, at[i]) = IF i = n THEN at[1] ELSE at[i + 1]
  <2>1. t.nxt[at[i]] = IF i = n THEN Null ELSE at[i + 1]
    BY <1>1 DEF Chain
  <2>2. t.sc[at[i]] = o
    BY <1>3
  <2>3. i # n => i + 1 \in 1 .. n
    BY <1>1
  <2>4. i # n => at[i + 1] # Null
    BY <1>2, <1>3, <2>3
  <2> QED BY <1>4, <2>1, <2>2, <2>4 DEF NextOf
<1>7. ASSUME NEW i \in 1 .. n
      PROVE  PrevOf(t, at[i]) = IF i = 1 THEN at[n] ELSE at[i - 1]
  <2>1. t.prv[at[i]] = at[i - 1] /\ t.sc[at[i]] = o
    BY <1>3 DEF Chain
  <2>2. CASE i = 1
    <3>1. t.prv[at[i]] = o /\ t.prv[o] = at[n] /\ t.nxt[at[n]] = Null
      BY <1>1, <1>3, <2>1, <2>2 DEF Chain
    <3>2. Prev(t, at[i]) = Null
      BY <1>1, <1>2, <1>3, <3>1 DEF Prev
    <3> QED BY <1>5, <2>1, <2>2, <3>2 DEF PrevOf
  <2>3. CASE i # 1
    <3>1. i - 1 \in 1 .. n /\ (i - 1) - 1 \in 0 .. n /\ ((i - 1) - 1) + 1 = i - 1
          /\ (i - 1) - 1 # n
      BY <1>1, <2>3
    <3>2. t.prv[at[i - 1]] = at[(i - 1) - 1] /\ t.nxt[at[(i - 1) - 1]] = at[i - 1]
      BY <3>1 DEF Chain
    <3>3. Prev(t, at[i]) = at[i - 1] /\ at[i - 1] # Null
      BY <1>2, <1>3, <2>1, <3>1, <3>2 DEF Prev
    <3> QED BY <2>3, <3>3 DEF PrevOf
  <2> QED BY <2>2, <2>3
<1> QED
  BY <1>4, <1>5, <1>6, <1>7

\* client_cycle comes round to the client it began with, and stops there if at
\* no other before.
LEMMA CycleLinked ==
  ASSUME NEW t, LinkTypes(t), NEW o \in Outputs, NEW M \in SUBSET Windows,
         M \cap t.freed = {}, \A w \in M : t.sc[w] = o, Linked(t, o, M),
         t.cur \in M \cup {Null}, NEW dir \in {1, -1}, NEW ingroup
  PROVE  Cycle(t, o, dir, ingroup) \in {t, [t EXCEPT !.cycling = @ \cup {o}]}
<1> DEFINE old == IF t.cur # Null THEN t.cur ELSE IF dir = -1 THEN Prev(t, o) ELSE t.nxt[o]
           Step(c) == IF c \in t.freed \cup {Null} THEN c
                      ELSE IF dir = 1 THEN NextOf(t, c) ELSE PrevOf(t, c)
           Is(g) == g = [k \in 0 .. N |-> IF k = 0 THEN old ELSE Step(g[k - 1])]
           it == CHOOSE g : Is(g)
           Fits(c) == c \notin t.hidden /\ (ingroup => t.grp[c] = t.grp[old])
           stops == {k \in 1 .. N : it[k] \in t.freed \cup {Null, old} \/ Fits(it[k])}
           newcc == it[CHOOSE k \in stops : \A j \in stops : k <= j]
<1>1. PICK n, at : Chain(t, o, M, n, at)
  BY DEF Linked
<1>2. n \in 0 .. N /\ N \in Nat /\ n \in Nat
  BY <1>1, ChainLength
<1>3. Cycle(t, o, dir, ingroup)
        = IF t.nxt[o] = Null THEN t
          ELSE IF old \in t.freed \/ (stops # {} /\ newcc \in t.freed)
            THEN [t EXCEPT !.status = "freed"]
          ELSE IF stops = {} THEN [t EXCEPT !.status = "hang"]
          ELSE IF newcc = Null THEN [t EXCEPT !.status = "null"]
          ELSE IF Fits(newcc) THEN [t EXCEPT !.cycling = @ \cup {o}] ELSE t
  BY Zenon DEF Cycle
<1>4. CASE n = 0
  <2>1. t.nxt[o] = Null
    BY <1>1, <1>4 DEF Chain
  <2> QED BY <1>3, <2>1
<1>5. CASE n # 0
  <2>1. /\ t.nxt[o] = at[1] /\ Prev(t, o) = at[n]
        /\ \A i \in 1 .. n :
             /\ NextOf(t, at[i]) = IF i = n THEN at[1] ELSE at[i + 1]
             /\ PrevOf(t, at[i]) = IF i = 1 THEN at[n] ELSE at[i - 1]
    BY <1>1, <1>5, Neighbours
  <2>2. /\ Null \notin M /\ \A i \in 1 .. n : at[i] \in M
        /\ 1 \in 1 .. n /\ n \in 1 .. n
    BY <1>1, <1>2, <1>5, Apart DEF Chain
  <2>3. old \in M /\ t.nxt[o] # Null
    BY <2>1, <2>2
  <2>4. PICK b \in 1 .. n : at[b] = old
    BY <1>1, <2>3 DEF Chain
  <2> HIDE DEF old
  <2>5. \A i \in 1 .. n : Step(at[i]) = IF dir = 1 THEN IF i = n THEN at[1] ELSE at[i + 1]
                                                  ELSE IF i = 1 THEN at[n] ELSE at[i - 1]
    BY <2>1, <2>2
  <2>6. \A c \in M : Step(c) \in M
    <3> SUFFICES ASSUME NEW c \in M PROVE Step(c) \in M
      OBVIOUS
    <3>1. PICK i \in 1 .. n : at[i] = c
      BY <1>1 DEF Chain
    <3>2. (i # n => i + 1 \in 1 .. n) /\ (i # 1 => i - 1 \in 1 .. n)
      BY <1>2
    <3> HIDE DEF Step
    <3> QED BY <2>2, <2>5, <3>1, <3>2
  <2> HIDE DEF Step
  <2>7. Is(it)
    <3> DEFINE step == [p \in M \X (1 .. N) |-> Step(p[1])]
    <3>1. step \in [M \X (1 .. N) -> M]
      BY <2>6
    <3>2. \A c \in M, k \in 1 .. N : step[<<c, k>>] = Step(c)
      OBVIOUS
    <3> HIDE DEF step
    <3>3. PICK f \in [0 .. N -> M] : Solves(f, old, step, N)
      BY <1>2, <2>3, <3>1, SequenceRecursion
    <3>4. \A k \in 0 .. N : f[k] = IF k = 0 THEN old ELSE Step(f[k - 1])
      <4> SUFFICES ASSUME NEW k \in 0 .. N
                   PROVE  f[k] = IF k = 0 THEN old ELSE Step(f[k - 1])
        OBVIOUS
      <4>1. CASE k = 0
        BY <3>3, <4>1 DEF Solves
      <4>2. CASE k # 0
        <5>1. k \in 1 .. N /\ k - 1 \in 0 .. N
          BY <1>2, <4>2
        <5>2. f[k - 1] \in M /\ f[k] = step[<<f[k - 1], k>>]
          BY <3>3, <5>1 DEF Solves
        <5> QED BY <3>2, <4>2, <5>1, <5>2
      <4> QED BY <4>1, <4>2
    <3>5. Is(f)
      BY <3>4
    <3> HIDE DEF Is
    <3> QED BY <3>5
  <2> HIDE DEF it
  <2>8. it[0] = old /\ \A k \in 0 .. N - 1 : it[k + 1] = Step(it[k])
    <3>1. 0 \in 0 .. N
      BY <1>2
    <3>2. \A k \in 0 .. N - 1 : k + 1 \in 0 .. N /\ k + 1 # 0 /\ (k + 1) - 1 = k
      BY <1>2
    <3> QED BY <2>7, <3>1, <3>2
  <2> HIDE DEF Is
  <2>9. \A k \in 0 .. N : it[k] \in M
    <3> DEFINE U == {k \in 0 .. N : it[k] \in M}
    <3>1. 0 \in U
      BY <1>2, <2>3, <2>8
    <3>2. \A k \in 0 .. N - 1 : k \in U => k + 1 \in U
      <4>1. \A k \in 0 .. N - 1 : k + 1 \in 0 .. N
        BY <1>2
      <4> QED BY <2>6, <2>8, <4>1
    <3> HIDE DEF U
    <3>3. \A k \in 0 .. N : k \in U
      BY <1>2, <3>1, <3>2, IntervalSets
    <3> QED BY <3>3 DEF U
  <2> DEFINE Pos(k) == IF dir = 1 THEN IF b + k <= n THEN b + k ELSE b + k - n
                       ELSE IF k < b THEN b - k ELSE b - k + n
  <2>10. \A k \in 0 .. n : it[k] = at[Pos(k)]
    <3> DEFINE U == {k \in 0 .. n : it[k] = at[Pos(k)]}
    <3>1. 0 \in U
      BY <1>2, <2>4, <2>8
    <3>2. ASSUME NEW k \in 0 .. n - 1, k \in U
          PROVE  k + 1 \in U
      <4>1. k + 1 \in 0 .. n /\ k \in 0 .. N - 1 /\ Pos(k) \in 1 .. n /\ Pos(k) \in Int
        BY <1>2
      <4>2. it[k + 1] = Step(at[Pos(k)])
        BY <2>8, <3>2, <4>1
      <4>3. CASE dir = 1
        <5>1. (IF Pos(k) = n THEN 1 ELSE Pos(k) + 1) = Pos(k + 1)
          BY <1>2, <4>3
        <5> HIDE DEF Pos
        <5> QED BY <2>5, <4>1, <4>2, <4>3, <5>1 DEF U
      <4>4. CASE dir = -1
        <5>1. (IF Pos(k) = 1 THEN n ELSE Pos(k) - 1) = Pos(k + 1)
          BY <1>2, <4>4
        <5> HIDE DEF Pos
        <5> QED BY <2>5, <4>1, <4>2, <4>4, <5>1 DEF U
      <4> QED BY <4>3, <4>4
    <3> HIDE DEF U
    <3>3. \A k \in 0 .. n : k \in U
      BY <1>2, <3>1, <3>2, IntervalSets
    <3> QED BY <3>3 DEF U
  <2>11. it[n] = old
    <3>1. n \in 0 .. n /\ Pos(n) = b
      BY <1>2
    <3> HIDE DEF Pos
    <3> QED BY <2>4, <2>10, <3>1
  <2>12. stops \subseteq 1 .. N /\ n \in stops
    BY <1>2, <1>5, <2>11
  <2> DEFINE m == CHOOSE k \in stops : \A j \in stops : k <= j
  <2> HIDE DEF stops
  <2>13. m \in stops
    <3>1. stops \subseteq Nat /\ stops # {}
      BY <1>2, <2>12
    <3>2. Min(stops) \in stops
      BY <3>1, LeastNat
    <3> QED BY <3>2 DEF Min
  <2> HIDE DEF m
  <2>14. it[m] \in M
    BY <1>2, <2>9, <2>12, <2>13
  <2>15. newcc = it[m]
    BY DEF m
  <2> HIDE DEF newcc, Fits
  <2> QED
    BY <1>3, <2>2, <2>3, <2>12, <2>14, <2>15
<1> QED
  BY <1>2, <1>4, <1>5

----------------------------------------------------------------------------
(* What the handlers do to the lists.                                      *)

On(t, o) == {w \in t.live : t.sc[w] = o}

\* Every list holds the windows of its output.
Whole(t) ==
  /\ Sound(t) /\ LinkTypes(t) /\ t.status = "ok"
  /\ t.live \cap t.freed = {}
  /\ \A w \in t.live : t.sc[w] \in Outputs
  /\ \A o \in Outputs : Linked(t, o, On(t, o))

\* A change that concerns neither links nor who is on which output
Aside(t, u) ==
  /\ Shaped(u) /\ u.nxt = t.nxt /\ u.prv = t.prv
  /\ u.live = t.live /\ u.freed = t.freed /\ u.sc = t.sc /\ u.status = t.status

\* What happens aside from the lists leaves them whole.
LEMMA AsideWhole ==
  ASSUME NEW t, Whole(t), NEW u, Aside(t, u), Sound(u)
  PROVE  Whole(u)
<1>1. LinkTypes(u)
  BY DEF Aside, Whole, LinkTypes
<1>2. ASSUME NEW o \in Outputs PROVE Linked(u, o, On(u, o))
  <2>1. On(u, o) = On(t, o)
    BY DEF Aside, On
  <2>2. PICK n, at : Chain(t, o, On(t, o), n, at)
    BY DEF Whole, Linked
  <2>3. Chain(u, o, On(t, o), n, at)
    BY <2>2 DEF Chain, Aside
  <2> QED BY <2>1, <2>3 DEF Linked
<1> QED
  BY <1>1, <1>2 DEF Aside, Whole

\* The clients on an output are live and chained.
LEMMA OnWindows ==
  ASSUME NEW t, Whole(t), NEW o \in Outputs
  PROVE  On(t, o) \in SUBSET Windows /\ On(t, o) \cap t.freed = {} /\ Linked(t, o, On(t, o))
         /\ LinkTypes(t)
BY DEF Whole, On, Sound

\* Walking a list that is whole meets the clients of its output.
LEMMA WholeWalked ==
  ASSUME NEW t, Whole(t), NEW o \in Outputs
  PROVE  Members(t, o) = On(t, o) /\ Walked(t, o) = t
BY OnWindows, WalkedLinked

\* client_hide, client_unhide, group_assign and the rest of client_toggle_sticky
LEMMA FlagsWhole ==
  ASSUME NEW t, Whole(t), NEW W
  PROVE  Whole(HideAll(t, W)) /\ Whole(UnhideAll(t, W))
<1>1. Sound(HideAll(t, W)) /\ Sound(UnhideAll(t, W))
  BY HideSound DEF Whole
<1>2. Aside(t, HideAll(t, W)) /\ Aside(t, UnhideAll(t, W))
  <2>1. Shaped(t) /\ Shaped(HideAll(t, W)) /\ Shaped(UnhideAll(t, W))
    BY <1>1 DEF Whole, Sound
  <2> QED BY <2>1 DEF HideAll, UnhideAll, Aside, Shaped
<1> QED
  BY <1>1, <1>2, AsideWhole

\* Assigning clients a group of their own output leaves the lists whole.
LEMMA AssignWhole ==
  ASSUME NEW t, Whole(t), NEW W, NEW g,
         \A w \in W \cap (t.live \ t.sticky) : g[1] = t.sc[w]
  PROVE  Whole(Assign(t, W, g))
<1>1. Sound(Assign(t, W, g))
  BY AssignSound DEF Whole
<1>2. Aside(t, Assign(t, W, g))
  BY <1>1 DEF Assign, Aside, Shaped, Whole, Sound
<1> QED
  BY <1>1, <1>2, AsideWhole

\* Current client and cycling are aside from the lists.
LEMMA SettingWhole ==
  ASSUME NEW t, Whole(t), NEW f
  PROVE  /\ Whole([t EXCEPT !.current = f]) /\ Whole([t EXCEPT !.cycling = f])
         /\ Whole(None(t))
<1>1. Shaped(t) /\ Sound(t)
  BY DEF Whole, Sound
<1>2. /\ Sound([t EXCEPT !.current = f]) /\ Sound([t EXCEPT !.cycling = f])
  BY <1>1, CurrentSame, SameSound
<1>3. Sound(None(t))
  BY <1>1 DEF None, Sound, Shaped, Focused, Owned
<1>4. /\ Aside(t, [t EXCEPT !.current = f]) /\ Aside(t, [t EXCEPT !.cycling = f])
      /\ Aside(t, None(t))
  BY <1>1 DEF Aside, Shaped, None
<1> QED
  BY <1>2, <1>3, <1>4, AsideWhole

\* client_toggle_sticky leaves the lists whole.
LEMMA ToggleStickyWhole ==
  ASSUME NEW t, Whole(t), NEW w \in Windows
  PROVE  Whole(ToggleSticky(t, w))
<1>1. Sound(ToggleSticky(t, w))
  BY ToggleStickySound DEF Whole
<1>2. Aside(t, ToggleSticky(t, w))
  BY <1>1 DEF ToggleSticky, Assign, Aside, Shaped, Whole, Sound
<1> QED
  BY <1>1, <1>2, AsideWhole

\* One list changes and the others are left as they are.
LEMMA OneList ==
  ASSUME NEW t, Whole(t), NEW u, Sound(u), NEW o \in Outputs,
         NEW M \in SUBSET Windows, SameLinks(t, u, M \cup {o}),
         M = On(t, o), Linked(u, o, M)
  PROVE  Whole(u)
<1>1. LinkTypes(u) /\ u.live = t.live /\ u.sc = t.sc /\ u.freed = t.freed
      /\ u.status = t.status
  BY DEF SameLinks, SameClients
<1>2. ASSUME NEW p \in Outputs PROVE Linked(u, p, On(u, p))
  <2>1. On(u, p) = On(t, p)
    BY <1>1 DEF On
  <2>2. CASE p = o
    BY <2>1, <2>2
  <2>3. CASE p # o
    <3>1. (On(t, p) \cup {p}) \cap (M \cup {o}) = {}
      BY <2>3, OnWindows, ScreensAssumption DEF On
    <3>2. Linked(u, p, On(t, p))
      BY <3>1, FrameLinked, OnWindows
    <3> QED BY <2>1, <3>2
  <2> QED BY <2>2, <2>3
<1> QED
  BY <1>1, <1>2 DEF Whole

\* The same links, twice over.
LEMMA SameLinksTrans ==
  ASSUME NEW t, NEW u, NEW v, NEW X, SameLinks(t, u, X), SameLinks(u, v, X)
  PROVE  SameLinks(t, v, X)
BY DEF SameLinks, SameClients

\* client_mtf
LEMMA MoveToFrontWhole ==
  ASSUME NEW t, Whole(t), NEW w \in t.live
  PROVE  Whole(MoveToFront(t, w))
<1> DEFINE o == t.sc[w]
           M == On(t, o)
           u == Unlink(t, o, w)
           v == InsertHead(u, o, w)
<1>1. o \in Outputs /\ w \in Windows /\ w \in M
  BY DEF Whole, Sound, On
<1>2. /\ M \in SUBSET Windows /\ M \cap t.freed = {} /\ Linked(t, o, M)
      /\ LinkTypes(t)
  BY <1>1, OnWindows
<1> HIDE DEF o
<1>3. Linked(u, o, M \ {w}) /\ SameLinks(t, u, M \cup {o})
  <2> HIDE DEF M
  <2> QED BY <1>1, <1>2, UnlinkLinked
<1>4. u.freed = t.freed /\ LinkTypes(u)
  BY <1>3 DEF SameLinks
<1> HIDE DEF u
<1>5. /\ Linked(v, o, (M \ {w}) \cup {w})
      /\ SameLinks(u, v, ((M \ {w}) \cup {w}) \cup {o})
  <2>1. M \ {w} \in SUBSET Windows /\ (M \ {w}) \cap u.freed = {} /\ w \notin M \ {w}
    BY <1>2, <1>4
  <2> HIDE DEF M
  <2> QED BY <1>1, <1>3, <1>4, <2>1, InsertHeadLinked
<1>6. (M \ {w}) \cup {w} = M
  BY <1>1
<1> HIDE DEF v
<1>7. Linked(v, o, M) /\ SameLinks(t, v, M \cup {o})
  BY <1>3, <1>5, <1>6, SameLinksTrans
<1>8. Sound(v)
  BY <1>7, SameSound DEF Whole, SameLinks
<1>9. Whole(v)
  BY <1>1, <1>2, <1>7, <1>8, OneList
<1> QED
  BY <1>9 DEF MoveToFront, v, u, o

\* client_setactive
LEMMA SetActiveWhole ==
  ASSUME NEW t, Whole(t), NEW w \in t.live
  PROVE  Whole(SetActive(t, w))
<1> DEFINE u == IF t.sc[w] \in t.cycling THEN t ELSE MoveToFront(t, w)
           v == [u EXCEPT !.cur = w]
<1>1. Whole(u)
  BY MoveToFrontWhole
<1>2. SetActive(t, w) = IF w \in t.hidden THEN t ELSE v
  BY DEF SetActive
<1>3. Sound(SetActive(t, w))
  BY SetActiveSound DEF Whole
<1> HIDE DEF u
<1>4. Aside(u, v)
  BY <1>1 DEF Aside, Whole, Sound, Shaped
<1> HIDE DEF v
<1> QED
  BY <1>1, <1>2, <1>3, <1>4, AsideWhole

\* client_cycle and client_cycle_leave
LEMMA CycleWhole ==
  ASSUME NEW t, Whole(t), NEW o \in Outputs, t.cur # Null => t.sc[t.cur] = o,
         NEW dir \in {1, -1}, NEW ingroup
  PROVE  Whole(Cycle(t, o, dir, ingroup))
<1>1. t.cur \in On(t, o) \cup {Null}
  BY DEF Whole, Sound, Focused, On
<1>2. \A w \in On(t, o) : t.sc[w] = o
  BY DEF On
<1>3. Cycle(t, o, dir, ingroup) \in {t, [t EXCEPT !.cycling = @ \cup {o}]}
  BY <1>1, <1>2, OnWindows, CycleLinked
<1>4. Whole([t EXCEPT !.cycling = @ \cup {o}])
  BY SettingWhole
<1> QED
  BY <1>3, <1>4

\* client_cycle_leave leaves the lists whole.
LEMMA CycleLeaveWhole ==
  ASSUME NEW t, Whole(t), NEW o
  PROVE  Whole(CycleLeave(t, o))
<1> DEFINE u == [t EXCEPT !.cycling = @ \ {o}]
<1>1. Whole(u)
  BY SettingWhole
<1>2. CycleLeave(t, o) = IF u.cur = Null THEN u ELSE MoveToFront(u, u.cur)
  BY DEF CycleLeave
<1> HIDE DEF u
<1>3. u.cur # Null => u.cur \in u.live
  BY <1>1 DEF Whole, Sound, Focused
<1> QED
  BY <1>1, <1>2, <1>3, MoveToFrontWhole

\* client_init
LEMMA ClientInitWhole ==
  ASSUME NEW t, Whole(t), NEW w \in Windows, w \notin t.live, w \notin t.freed,
         NEW o \in Outputs, NEW n
  PROVE  Whole(ClientInit(t, w, o, n))
<1> DEFINE u == [t EXCEPT !.sc[w] = o, !.grp[w] = <<o, n>>, !.live = @ \cup {w}]
           v == InsertTail(u, o, w)
           M == On(t, o)
           K == M \cup {w}
<1>1. /\ Shaped(t) /\ t.sc = [x \in Windows |-> t.sc[x]]
  BY DEF Whole, Sound
<1>2. /\ Shaped(u) /\ u.nxt = t.nxt /\ u.prv = t.prv /\ u.freed = t.freed
      /\ u.status = t.status /\ u.live = t.live \cup {w}
      /\ u.sc = [t.sc EXCEPT ![w] = o]
  <2>1. u = [t EXCEPT !.sc[w] = o, !.grp[w] = <<o, n>>, !.live = @ \cup {w}]
    OBVIOUS
  <2> HIDE DEF u
  <2> QED BY <1>1, <2>1 DEF Shaped
<1>3. ClientInit(t, w, o, n) = Walked(v, o)
  BY DEF ClientInit
<1>4. Sound(u)
  <2>1. Sound(t)
    BY DEF Whole
  <2>2. /\ u.grp = [t.grp EXCEPT ![w] = <<o, n>>] /\ u.cur = t.cur
        /\ u.sticky = t.sticky /\ u.hidden = t.hidden
    BY <1>1 DEF Shaped
  <2> HIDE DEF u
  <2>3. u.sc[w] = o /\ u.grp[w][1] = o
    BY <1>2, <2>1, <2>2 DEF Sound
  <2>4. \A x \in Windows \ {w} : u.sc[x] = t.sc[x] /\ u.grp[x] = t.grp[x]
    BY <1>2, <2>1, <2>2 DEF Sound
  <2>5. Owned(u)
    BY <1>2, <2>1, <2>2, <2>3, <2>4 DEF Sound, Owned
  <2>6. Focused(u)
    BY <1>2, <2>1, <2>2 DEF Sound, Focused
  <2>7. /\ u.sc = [x \in Windows |-> u.sc[x]]
        /\ u.grp = [x \in Windows |-> u.grp[x]]
    BY <1>2, <2>1, <2>2 DEF Sound
  <2> QED
    BY <1>2, <2>1, <2>5, <2>6, <2>7 DEF Sound
<1> HIDE DEF u
<1>5. LinkTypes(u)
  BY <1>2 DEF Whole, LinkTypes
<1>6. /\ M \in SUBSET Windows /\ M \cap u.freed = {} /\ w \notin M
  BY <1>2 DEF On, Whole, Sound
<1>7. \A p \in Outputs : Linked(u, p, On(t, p))
  <2> SUFFICES ASSUME NEW p \in Outputs PROVE Linked(u, p, On(t, p))
    OBVIOUS
  <2>1. PICK k, at : Chain(t, p, On(t, p), k, at)
    BY DEF Whole, Linked
  <2>2. Chain(u, p, On(t, p), k, at)
    BY <1>2, <2>1 DEF Chain
  <2> QED BY <2>2 DEF Linked
<1>8. /\ Linked(v, o, K) /\ SameLinks(u, v, K \cup {o})
  <2>1. Linked(u, o, M)
    BY <1>7
  <2> HIDE DEF M
  <2> QED BY <1>5, <1>6, <2>1, InsertTailLinked
<1> HIDE DEF v
<1>9. /\ LinkTypes(v) /\ v.live = t.live \cup {w} /\ v.sc = u.sc /\ v.freed = t.freed
      /\ v.status = t.status
  BY <1>2, <1>8 DEF SameLinks, SameClients
<1>10. /\ u.sc[w] = o /\ \A x \in Windows \ {w} : u.sc[x] = t.sc[x]
  BY <1>1, <1>2
<1>11. On(v, o) = K
  BY <1>9, <1>10 DEF On, Whole, Sound
<1>12. \A p \in Outputs \ {o} : On(v, p) = On(t, p)
  BY <1>9, <1>10 DEF On, Whole, Sound
<1>13. ASSUME NEW p \in Outputs PROVE Linked(v, p, On(v, p))
  <2>1. CASE p = o
    BY <1>8, <1>11, <2>1
  <2>2. CASE p # o
    <3>1. (On(t, p) \cup {p}) \cap (K \cup {o}) = {}
      BY <2>2, OnWindows, ScreensAssumption DEF On
    <3>2. Linked(u, p, On(t, p)) /\ On(t, p) \in SUBSET Windows
      BY <1>7, OnWindows
    <3>3. Linked(v, p, On(t, p))
      BY <1>8, <3>1, <3>2, FrameLinked
    <3> QED BY <1>12, <2>2, <3>3
  <2> QED BY <2>1, <2>2
<1>14. Sound(v)
  BY <1>4, <1>8, SameSound DEF SameLinks
<1>15. Whole(v)
  <2>1. v.live \cap v.freed = {}
    BY <1>9 DEF Whole
  <2>2. \A x \in v.live : v.sc[x] \in Outputs
    BY <1>9, <1>10 DEF Whole, Sound
  <2> QED
    BY <1>9, <1>13, <1>14, <2>1, <2>2 DEF Whole
<1> QED
  BY <1>3, <1>15, WholeWalked

\* client_delete
LEMMA DeleteWhole ==
  ASSUME NEW t, Whole(t), NEW w \in t.live
  PROVE  Whole(Delete(t, w))
<1> DEFINE o == t.sc[w]
           M == On(t, o)
           u == Unlink(t, o, w)
           v == IF w = u.cur THEN None(u) ELSE u
           x == Delete(t, w)
<1>1. o \in Outputs /\ w \in Windows /\ w \in M
  BY DEF Whole, Sound, On
<1>2. /\ M \in SUBSET Windows /\ M \cap t.freed = {} /\ Linked(t, o, M)
      /\ LinkTypes(t)
  BY <1>1, OnWindows
<1> HIDE DEF o
<1>3. Linked(u, o, M \ {w}) /\ SameLinks(t, u, M \cup {o})
  <2> HIDE DEF M
  <2> QED BY <1>1, <1>2, UnlinkLinked
<1>4. u.freed = t.freed /\ LinkTypes(u) /\ u.live = t.live /\ u.sc = t.sc
      /\ u.status = "ok"
  BY <1>3 DEF SameLinks, SameClients, Whole
<1>5. x = [v EXCEPT !.live = @ \ {w}, !.freed = @ \cup {w}, !.sc[w] = Null,
                    !.grp[w] = Null, !.hidden = @ \ {w}, !.sticky = @ \ {w},
                    !.nxt[w] = Null, !.prv[w] = Null]
  <2>1. Walked(u, o) = u
    <3>1. M \ {w} \in SUBSET Windows /\ (M \ {w}) \cap u.freed = {}
      BY <1>2, <1>4
    <3> HIDE DEF M, u
    <3> QED BY <1>1, <1>3, <3>1, WalkedLinked
  <2> QED BY <2>1 DEF Delete, o
<1>6. Sound(x)
  BY <1>1, DeleteSound DEF Whole
<1> HIDE DEF u, x
<1>7. /\ Shaped(v) /\ v.nxt = u.nxt /\ v.prv = u.prv /\ v.freed = u.freed
      /\ v.live = u.live /\ v.sc = u.sc /\ v.status = u.status
  BY <1>4 DEF None, LinkTypes, Shaped
<1> HIDE DEF v
<1>8. /\ x.nxt = [u.nxt EXCEPT ![w] = Null] /\ x.prv = [u.prv EXCEPT ![w] = Null]
      /\ x.freed = t.freed \cup {w} /\ x.live = t.live \ {w}
      /\ x.sc = [t.sc EXCEPT ![w] = Null] /\ x.status = "ok"
  BY <1>4, <1>5, <1>7 DEF Shaped
<1>9. \A y \in Windows \ {w} : x.sc[y] = t.sc[y]
  BY <1>8 DEF Whole, Sound
<1>10. LinkTypes(x)
  BY <1>1, <1>2, <1>4, <1>6, <1>8 DEF LinkTypes, Sound
<1>11. \A y \in Nodes \ {w} : x.nxt[y] = u.nxt[y] /\ x.prv[y] = u.prv[y]
  BY <1>4, <1>8 DEF LinkTypes
<1>12. \A p \in Outputs : On(x, p) = On(t, p) \ {w}
  BY <1>8, <1>9 DEF On, Whole, Sound
<1>13. ASSUME NEW p \in Outputs PROVE Linked(x, p, On(x, p))
  <2>1. Linked(u, p, On(t, p) \ {w})
    <3>1. CASE p = o
      BY <1>3, <3>1
    <3>2. CASE p # o
      <4>0. On(t, p) \cap M = {} /\ On(t, p) \subseteq Windows
        BY <3>2, OnWindows DEF On
      <4>1. (On(t, p) \cup {p}) \cap (M \cup {o}) = {} /\ w \notin On(t, p)
        <5> HIDE DEF M
        <5> QED BY <1>1, <1>2, <3>2, <4>0, ScreensAssumption
      <4>2. Linked(t, p, On(t, p)) /\ On(t, p) \in SUBSET Windows
        BY OnWindows
      <4>3. Linked(u, p, On(t, p))
        BY <1>3, <4>1, <4>2, FrameLinked
      <4>4. On(t, p) \ {w} = On(t, p)
        BY <4>1
      <4> QED BY <4>3, <4>4
    <3> QED BY <3>1, <3>2
  <2> DEFINE L == On(t, p) \ {w}
  <2>2. PICK n, at : Chain(u, p, L, n, at)
    BY <2>1 DEF Linked
  <2>3. L \cup {p} \subseteq Nodes \ {w}
    BY <1>1, OnWindows, ScreensAssumption DEF Nodes
  <2>4. \A i \in 0 .. n : at[i] \in Nodes \ {w}
    <3> HIDE DEF L
    <3> QED BY <2>2, <2>3 DEF Chain
  <2>5. \A i \in 1 .. n : i \in 0 .. n
    BY <2>2 DEF Chain
  <2>6. /\ \A i \in 0 .. n : x.nxt[at[i]] = u.nxt[at[i]]
        /\ \A i \in 1 .. n : x.prv[at[i]] = u.prv[at[i]]
        /\ x.prv[p] = u.prv[p]
    BY <1>11, <2>3, <2>4, <2>5
  <2> HIDE DEF L
  <2>7. Chain(x, p, L, n, at)
    BY <2>2, <2>6 DEF Chain
  <2> QED BY <1>12, <2>7 DEF Linked, L
<1>14. x.live \cap x.freed = {}
  BY <1>8 DEF Whole
<1>15. \A y \in x.live : x.sc[y] \in Outputs
  BY <1>8, <1>9 DEF Whole, Sound
<1>16. Whole(x)
  BY <1>6, <1>8, <1>10, <1>13, <1>14, <1>15 DEF Whole
<1> QED
  BY <1>16 DEF x

\* group_show, group_hide and group_only
LEMMA GroupWhole ==
  ASSUME NEW t, Whole(t), NEW o \in Outputs, NEW n
  PROVE  /\ Whole(GroupHide(t, <<o, n>>)) /\ Whole(GroupShow(t, <<o, n>>))
         /\ Whole(GroupOnly(t, o, n))
<1> DEFINE g == <<o, n>>
<1>1. ASSUME NEW v, Whole(v) PROVE Whole(GroupShow(v, g))
  <2> DEFINE u == UnhideAll(v, In(v, g))
             W == Members(v, g[1]) \cap v.sticky
  <2>1. g[1] = o /\ Walked(v, o) = v
    BY <1>1, WholeWalked
  <2>2. GroupShow(v, g) = Assign(u, W, g)
    BY <2>1 DEF GroupShow
  <2>3. Whole(u)
    BY <1>1, FlagsWhole
  <2>4. u.sticky = v.sticky
    BY <1>1 DEF UnhideAll, Whole, Sound, Shaped
  <2> HIDE DEF u
  <2> QED
    BY <2>2, <2>3, <2>4, AssignWhole
<1>2. Whole(GroupHide(t, g))
  BY FlagsWhole DEF GroupHide
<1>3. Whole(GroupOnly(t, o, n))
  <2> DEFINE u == HideAll(t, UNION {In(t, <<o, m>>) : m \in Groups \ {n}})
             v == [u EXCEPT !.current[o] = n]
  <2>1. Whole(u)
    BY FlagsWhole
  <2>2. GroupOnly(t, o, n) = GroupShow(v, g)
    BY DEF GroupOnly
  <2> HIDE DEF u
  <2>3. Whole(v)
    BY <2>1, SettingWhole
  <2> HIDE DEF v
  <2> QED BY <1>1, <2>2, <2>3
<1> QED
  BY <1>1, <1>2, <1>3

\* group_movetogroup and group_toggle_membership_enter
LEMMA MembershipWhole ==
  ASSUME NEW t, Whole(t), NEW w, NEW n
  PROVE  Whole(MoveToGroup(t, w, n)) /\ Whole(ToggleMembership(t, w))
<1>1. Whole(MoveToGroup(t, w, n))
  <2> DEFINE g == <<t.sc[w], n>>
             u == IF In(t, g) \subseteq t.sticky \cup t.hidden THEN HideAll(t, {w}) ELSE t
  <2>1. Whole(u) /\ u.sc = t.sc
    <3>1. HideAll(t, {w}).sc = t.sc
      BY DEF HideAll, Whole, Sound, Shaped
    <3> QED BY <3>1, FlagsWhole
  <2>2. MoveToGroup(t, w, n) = IF t.grp[w] = g THEN t ELSE Assign(u, {w}, g)
    BY DEF MoveToGroup
  <2> HIDE DEF u
  <2>3. Whole(Assign(u, {w}, g))
    BY <2>1, AssignWhole
  <2> QED BY <2>2, <2>3
<1>2. Whole(ToggleMembership(t, w))
  <2> DEFINE g == <<t.sc[w], t.current[t.sc[w]]>>
             h == <<t.sc[w], 0>>
  <2>1. Whole(Assign(t, {w}, g)) /\ Whole(Assign(t, {w}, h))
    BY AssignWhole
  <2> QED BY <2>1 DEF ToggleMembership
<1> QED
  BY <1>1, <1>2

----------------------------------------------------------------------------
(* Every step, until a window crosses.                                     *)

MInv == Sound(s) /\ crossed \in Nat /\ (crossed = 0 => Whole(s))

\* Every event handled leaves the lists whole.
LEMMA HandleWhole ==
  ASSUME NEW t, Whole(t), Handle(t)
  PROVE  Whole(s)'
<1>1. s' = t
  BY DEF Handle, Whole
<1> QED
  BY <1>1

\* The invariant holds at first.
LEMMA InitWhole == Init => MInv
<1> SUFFICES ASSUME Init PROVE MInv
  OBVIOUS
<1>1. /\ s.nxt = [x \in Outputs \cup Windows |-> Null]
      /\ s.prv = [x \in Outputs \cup Windows |-> IF x \in Outputs THEN x ELSE Null]
      /\ s.live = {} /\ s.freed = {} /\ s.status = "ok" /\ crossed = 0
  BY DEF Init
<1>2. Sound(s)
  BY InitSound
<1>3. LinkTypes(s)
  BY <1>1, <1>2 DEF LinkTypes, Sound, Nodes
<1>4. ASSUME NEW o \in Outputs PROVE Linked(s, o, On(s, o))
  <2> DEFINE at == [i \in 0 .. 0 |-> o]
  <2>1. On(s, o) = {} /\ s.nxt[o] = Null /\ s.prv[o] = o
    BY <1>1 DEF On
  <2>2. Chain(s, o, {}, 0, at)
    BY <2>1 DEF Chain
  <2> HIDE DEF at
  <2> QED BY <2>1, <2>2 DEF Linked
<1> QED
  BY <1>1, <1>2, <1>3, <1>4 DEF MInv, Whole

\* A handler of the windows, in a state without a crossing
LEMMA WindowWhole ==
  ASSUME Whole(s), NEW w \in Windows,
         \/ \E o \in Outputs, n \in Groups : MapRequest(w, o, n)
         \/ Gone(w) \/ EnterNotify(w) \/ KbHide(w) \/ KbToggleSticky(w)
         \/ KbGroupToggle(w) \/ Search(w)
         \/ \E n \in Groups : KbMoveToGroup(w, n)
  PROVE  Whole(s)'
<1>1. ASSUME NEW o \in Outputs, NEW n \in Groups, MapRequest(w, o, n)
      PROVE  Whole(s)'
  BY <1>1, ClientInitWhole, HandleWhole DEF MapRequest
<1>2. CASE Gone(w)
  BY <1>2, DeleteWhole, HandleWhole DEF Gone
<1>3. CASE EnterNotify(w)
  BY <1>3, SetActiveWhole, HandleWhole DEF EnterNotify
<1>4. CASE KbHide(w)
  BY <1>4, FlagsWhole, HandleWhole DEF KbHide
<1>5. CASE KbToggleSticky(w)
  BY <1>5, ToggleStickyWhole, HandleWhole DEF KbToggleSticky
<1>6. ASSUME NEW n \in Groups, KbGroupToggle(w) \/ KbMoveToGroup(w, n)
      PROVE  Whole(s)'
  BY <1>6, MembershipWhole, HandleWhole DEF KbGroupToggle, KbMoveToGroup
<1>7. CASE Search(w)
  <2> DEFINE t == UnhideAll(s, {w})
             u == GroupHide(t, <<First, t.current[First]>>)
             v == [u EXCEPT !.current[u.grp[w][1]] = u.grp[w][2]]
  <2>1. Handle(v)
    BY <1>7 DEF Search
  <2>2. Whole(t)
    BY FlagsWhole
  <2> HIDE DEF t
  <2>3. Whole(u)
    BY <2>2, FlagsWhole DEF GroupHide
  <2> HIDE DEF u
  <2>4. Whole(v)
    BY <2>3, SettingWhole
  <2> HIDE DEF v
  <2> QED
    BY <2>1, <2>4, HandleWhole
<1>8. 0 \in Groups
  BY ScreensAssumption DEF Groups
<1> QED
  BY <1>1, <1>2, <1>3, <1>4, <1>5, <1>6, <1>7, <1>8

\* A handler of an output or of the focus
LEMMA OutputWhole ==
  ASSUME Whole(s),
         \/ \E o \in Outputs, n \in Groups : KbGroup(o, n) \/ KbGroupOnly(o, n)
         \/ \E o \in Outputs, dir \in {1, -1}, ingr \in BOOLEAN : KbCycle(o, dir, ingr)
         \/ \E n \in Groups : MsgCurrentDesktop(n)
         \/ EnterRoot \/ KeyRelease
  PROVE  Whole(s)'
<1>1. First \in Outputs
  BY ScreensAssumption DEF First
<1>2. ASSUME NEW o \in Outputs, NEW n \in Groups, KbGroup(o, n) \/ KbGroupOnly(o, n)
      PROVE  Whole(s)'
  BY <1>2, GroupWhole, HandleWhole DEF KbGroup, KbGroupOnly
<1>3. ASSUME NEW o \in Outputs, NEW dir \in {1, -1}, NEW ingr \in BOOLEAN,
             KbCycle(o, dir, ingr)
      PROVE  Whole(s)'
  <2>1. s.cur # Null => s.sc[s.cur] = o
    BY <1>3 DEF KbCycle, Here
  <2>2. Handle(Cycle(s, o, dir, ingr))
    BY <1>3 DEF KbCycle
  <2> QED
    BY <2>1, <2>2, CycleWhole, HandleWhole
<1>4. ASSUME NEW n \in Groups, MsgCurrentDesktop(n)
      PROVE  Whole(s)'
  BY <1>1, <1>4, GroupWhole, HandleWhole DEF MsgCurrentDesktop
<1>5. CASE EnterRoot
  BY <1>5, SettingWhole, HandleWhole DEF EnterRoot
<1>6. CASE KeyRelease
  BY <1>6, CycleLeaveWhole, HandleWhole DEF KeyRelease
<1> QED
  BY <1>2, <1>3, <1>4, <1>5, <1>6

\* Every step keeps the invariant.
LEMMA NextWhole == MInv /\ [Next]_svars => MInv'
<1> SUFFICES ASSUME MInv, [Next]_svars PROVE MInv'
  OBVIOUS
<1>1. Sound(s) /\ Sound(s)' /\ crossed \in Nat
  BY NextSound DEF MInv
<1>2. CASE UNCHANGED svars
  BY <1>2 DEF svars, MInv
<1>3. ASSUME NEW w \in Windows, NEW o \in Outputs, MoveTo(w, o)
      PROVE  MInv'
  <2>1. /\ s' = Move(s, w, o) /\ crossed' = crossed + (IF o # s.sc[w] THEN 1 ELSE 0)
    BY <1>3 DEF MoveTo
  <2>2. crossed' \in Nat
    BY <1>1, <2>1
  <2>3. ASSUME crossed' = 0 PROVE Whole(s)'
    <3>1. crossed = 0 /\ o = s.sc[w]
      BY <1>1, <2>1, <2>3
    <3>2. Whole(s)
      BY <3>1 DEF MInv
    <3> DEFINE t == Move(s, w, o)
    <3>3. Aside(s, t)
      BY <1>1, <3>1, <3>2 DEF Move, Aside, Sound, Shaped, Whole
    <3>4. Sound(t)
      BY <1>1, MoveSound
    <3> HIDE DEF t
    <3>5. Whole(t)
      BY <3>2, <3>3, <3>4, AsideWhole
    <3> QED BY <2>1, <3>5 DEF t
  <2> QED
    BY <1>1, <2>2, <2>3 DEF MInv
<1>4. ASSUME crossed' = crossed, Whole(s) => Whole(s)' PROVE MInv'
  BY <1>1, <1>4 DEF MInv
<1>5. ASSUME NEW w \in Windows,
         \/ \E o \in Outputs, n \in Groups : MapRequest(w, o, n)
         \/ Gone(w) \/ EnterNotify(w) \/ KbHide(w) \/ KbToggleSticky(w)
         \/ KbGroupToggle(w) \/ Search(w)
         \/ \E n \in Groups : KbMoveToGroup(w, n)
      PROVE  MInv'
  <2>1. crossed' = crossed
    BY <1>5 DEF MapRequest, Gone, EnterNotify, KbHide, KbToggleSticky, KbGroupToggle,
                Search, KbMoveToGroup, Handle
  <2> QED
    BY <1>4, <1>5, <2>1, WindowWhole
<1>6. ASSUME
         \/ \E o \in Outputs, n \in Groups : KbGroup(o, n) \/ KbGroupOnly(o, n)
         \/ \E o \in Outputs, dir \in {1, -1}, ingr \in BOOLEAN : KbCycle(o, dir, ingr)
         \/ \E n \in Groups : MsgCurrentDesktop(n)
         \/ EnterRoot \/ KeyRelease
      PROVE  MInv'
  <2>1. crossed' = crossed
    BY <1>6 DEF KbGroup, KbGroupOnly, KbCycle, MsgCurrentDesktop, EnterRoot, KeyRelease,
                Handle
  <2> QED
    BY <1>4, <1>6, <2>1, OutputWhole
<1> QED
  BY <1>2, <1>3, <1>5, <1>6 DEF Next

\* Until a window crosses, cwm works on lists that are right: whatever is opened,
\* closed, focused, cycled through, hidden or regrouped, each list of clients
\* holds the windows of its output, forwards and backwards, and no handler
\* touches a client that is freed or walks for ever.
THEOREM SoundUntilCrossedHolds == Spec => []SoundUntilCrossed
<1>1. Spec => []MInv
  BY InitWhole, NextWhole, PTL DEF Spec
<1>2. MInv => SoundUntilCrossed
  <2> SUFFICES ASSUME Whole(s) PROVE SoundUntilCrossed
    BY DEF MInv, SoundUntilCrossed
  <2>1. ASSUME NEW o \in Outputs
        PROVE  LET q == After(s, o)
                   n == Cardinality(Members(s, o))
               IN  /\ Members(s, o) = {w \in s.live : s.sc[w] = o}
                   /\ s.prv[o] = q[n]
                   /\ \A k \in 1 .. n : s.prv[q[k]] = q[k - 1]
    <3> DEFINE M == On(s, o)
    <3>1. M \in SUBSET Windows /\ M \cap s.freed = {} /\ Linked(s, o, M)
      BY OnWindows
    <3>2. Members(s, o) = M
      BY WholeWalked
    <3> HIDE DEF M
    <3>3. PICK n, at : Chain(s, o, M, n, at)
      BY <3>1 DEF Linked
    <3>4. n = Cardinality(Members(s, o)) /\ n \in 0 .. N /\ N \in Nat
      BY <3>1, <3>2, <3>3, ChainLength
    <3>5. \A k \in 0 .. N + 1 : After(s, o)[k] = IF k <= n THEN at[k] ELSE Null
      BY <3>1, <3>3, AfterChain
    <3>6. /\ n \in 0 .. N + 1 /\ n <= n
          /\ \A k \in 1 .. n : k \in 0 .. N + 1 /\ k <= n /\ k - 1 \in 0 .. N + 1 /\ k - 1 <= n
      BY <3>4
    <3>7. s.prv[o] = After(s, o)[n]
      BY <3>3, <3>5, <3>6 DEF Chain
    <3>8. \A k \in 1 .. n : s.prv[After(s, o)[k]] = After(s, o)[k - 1]
      BY <3>3, <3>5, <3>6 DEF Chain
    <3> QED BY <3>2, <3>4, <3>7, <3>8 DEF M, On
  <2> QED BY <2>1 DEF SoundUntilCrossed, Whole
<1> QED
  BY <1>1, <1>2, PTL

=============================================================================
