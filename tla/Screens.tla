------------------------------ MODULE Screens -------------------------------
(***************************************************************************)
(* Several outputs, each a screen_ctx with its own clients and groups, and *)
(* one focus for them all: the search of the output of a key, a window or  *)
(* a message, and client_move, which takes a window across.                *)
(*                                                                         *)
(* client_move changes cc->sc and leaves the client in the list it is in,  *)
(* and the macros of queue.h get the head of cc->sc.  So the lists are the *)
(* pointers here: nxt is tqe_next, and tqh_first of a head; prv is the     *)
(* element or head that tqe_prev, and tqh_last of a head, point into.      *)
(* What cwm does once it reads or writes a client it has freed, follows a  *)
(* null pointer or walks a list that does not end is not modelled.         *)
(*                                                                         *)
(* GROUP_HIDDEN and hideall of module Groups are not kept: here a toggle   *)
(* of a group may go either way.                                           *)
(***************************************************************************)
EXTENDS Integers, FiniteSets, Sequences

CONSTANTS
  Screenq,     \* the outputs, the primary one first
  Windows,     \* each is opened once at most
  NGROUPS,
  Null,
  MaxCrossed   \* bound: how often windows move to another output

Outputs == {Screenq[k] : k \in DOMAIN Screenq}

ASSUME ScreensAssumption ==
  /\ Screenq \in Seq(Outputs) /\ Screenq # <<>> /\ IsFiniteSet(Windows)
  /\ Null \notin Windows \cup Outputs
  /\ Windows \cap Outputs = {}
  /\ NGROUPS \in Nat \ {0} /\ MaxCrossed \in Nat

Groups  == 0 .. NGROUPS - 1
N       == Cardinality(Windows)

VARIABLES
  s,           \* cwm's memory, a record of
               \*   nxt, prv   the links of the clientq of every output
               \*   live       the clients cwm has not freed
               \*   freed      those it has
               \*   sc         cc->sc
               \*   grp        cc->group: an output and a number
               \*   hidden, sticky   the clients with the flag
               \*   current    sc->group_current of every output
               \*   cycling    the outputs with sc->cycling
               \*   cur        curcc
               \*   status     "ok", or how cwm came to its end
  crossed      \* how often a window has moved to another output

svars == <<s, crossed>>

Init ==
  /\ s = [nxt |-> [x \in Outputs \cup Windows |-> Null],
          prv |-> [x \in Outputs \cup Windows |-> IF x \in Outputs THEN x ELSE Null],
          live |-> {}, freed |-> {},
          sc |-> [w \in Windows |-> Null], grp |-> [w \in Windows |-> Null],
          hidden |-> {}, sticky |-> {},
          current |-> [o \in Outputs |-> 0], cycling |-> {}, cur |-> Null,
          status |-> "ok"]
  /\ crossed = 0

-----------------------------------------------------------------------------
(* Lists.                                                                  *)

\* The clients of X are read or written
Touch(t, X) == IF X \cap t.freed # {} THEN [t EXCEPT !.status = "freed"] ELSE t

InsertTail(t, h, e) ==
  LET last == t.prv[h]
  IN  [Touch(t, {last}) EXCEPT !.nxt = [@ EXCEPT ![e] = Null, ![last] = e],
                               !.prv = [@ EXCEPT ![e] = last, ![h] = e]]

InsertHead(t, h, e) ==
  LET first == t.nxt[h]
      owner == IF first # Null THEN first ELSE h
  IN  [Touch(t, {first}) EXCEPT !.nxt = [@ EXCEPT ![e] = first, ![h] = e],
                                !.prv = [@ EXCEPT ![owner] = e, ![e] = h]]

\* Mutant of Unlink: tqh_last is not moved back
UnlinkKeepLast(t, h, e) ==
  LET next == t.nxt[e]
      back == t.prv[e]
  IN  [Touch(t, {next, back}) EXCEPT
         !.prv = IF next # Null THEN [@ EXCEPT ![next] = back] ELSE @,
         !.nxt = [@ EXCEPT ![back] = next]]

Unlink(t, h, e) ==
  LET next  == t.nxt[e]
      back  == t.prv[e]
      owner == IF next # Null THEN next ELSE h
  IN  [Touch(t, {next, back}) EXCEPT !.prv = [@ EXCEPT ![owner] = back],
                                     !.nxt = [@ EXCEPT ![back] = next]]

\* The first clients from x on, and whether TAILQ_FOREACH never ends
After(t, x) ==
  LET Step(y) == IF y = Null THEN Null ELSE t.nxt[y]
      at[k \in 0..N + 1] == IF k = 0 THEN x ELSE Step(at[k - 1])
  IN  at
Members(t, o) == {After(t, o)[k] : k \in 1..N} \ {Null}
Endless(t, o) == After(t, o)[N + 1] # Null

\* TAILQ_FOREACH over sc->clientq
Walked(t, o) ==
  IF Endless(t, o) THEN [t EXCEPT !.status = "hang"] ELSE Touch(t, Members(t, o))

\* client_find
Found(t, w) == \E o \in Outputs : w \in Members(t, o)

-----------------------------------------------------------------------------
(* Clients.                                                                *)

None(t) == [t EXCEPT !.cur = Null]

HideAll(t, W) ==
  LET L == W \ t.sticky
  IN  [t EXCEPT !.hidden = @ \cup L, !.cur = IF @ \in L THEN Null ELSE @]

UnhideAll(t, W) == [t EXCEPT !.hidden = @ \ (W \ t.sticky)]

Assign(t, W, g) == [t EXCEPT !.grp = [w \in Windows |-> IF w \in W THEN g ELSE @[w]]]

MoveToFront(t, w) == InsertHead(Unlink(t, t.sc[w], w), t.sc[w], w)

SetActive(t, w) ==
  IF w \in t.hidden THEN t
  ELSE [(IF t.sc[w] \in t.cycling THEN t ELSE MoveToFront(t, w)) EXCEPT !.cur = w]

ClientInit(t, w, o, n) ==
  LET u == [t EXCEPT !.sc[w] = o, !.grp[w] = <<o, n>>, !.live = @ \cup {w}]
  IN  Walked(InsertTail(u, o, w), o)

\* Mutant of Delete: no client_none for the current client
DeleteKeepCurrent(t, w) ==
  LET u == Walked(Unlink(t, t.sc[w], w), t.sc[w])
  IN  [u EXCEPT !.live = @ \ {w}, !.freed = @ \cup {w}, !.sc[w] = Null, !.grp[w] = Null,
                !.hidden = @ \ {w}, !.sticky = @ \ {w}, !.nxt[w] = Null, !.prv[w] = Null]

Delete(t, w) ==
  LET u == Walked(Unlink(t, t.sc[w], w), t.sc[w])
      v == IF w = u.cur THEN None(u) ELSE u
  IN  [v EXCEPT !.live = @ \ {w}, !.freed = @ \cup {w}, !.sc[w] = Null, !.grp[w] = Null,
                !.hidden = @ \ {w}, !.sticky = @ \ {w}, !.nxt[w] = Null, !.prv[w] = Null]

\* Mutant of Move: the window keeps its group
MoveKeepGroup(t, w, o) == [t EXCEPT !.sc[w] = o]

\* client_move, to a place on output o
Move(t, w, o) ==
  LET u == IF t.sc[w] # o THEN Assign(t, {w}, <<o, t.current[o]>>) ELSE t
  IN  [u EXCEPT !.sc[w] = o]

ToggleSticky(t, w) ==
  IF w \in t.sticky
  THEN [Assign(t, {w}, <<t.sc[w], t.current[t.sc[w]]>>) EXCEPT !.sticky = @ \ {w}]
  ELSE [t EXCEPT !.sticky = @ \cup {w}]

-----------------------------------------------------------------------------
(* Groups.                                                                 *)

In(t, g) == {w \in t.live : t.grp[w] = g}

GroupHide(t, g) == HideAll(t, In(t, g))

\* group_show: the sticky clients of the list of the output join the group
GroupShow(t, g) ==
  LET u == Walked(t, g[1])
  IN  Assign(UnhideAll(u, In(u, g)), Members(u, g[1]) \cap u.sticky, g)

\* Mutant of GroupOnly: the groups of every output are hidden
GroupOnlyEverywhere(t, o, n) ==
  LET u == HideAll(t, {w \in t.live : t.grp[w] # <<o, n>>})
  IN  GroupShow([u EXCEPT !.current[o] = n], <<o, n>>)

GroupOnly(t, o, n) ==
  LET u == HideAll(t, UNION {In(t, <<o, m>>) : m \in Groups \ {n}})
  IN  GroupShow([u EXCEPT !.current[o] = n], <<o, n>>)

MoveToGroup(t, w, n) ==
  LET g == <<t.sc[w], n>>
  IN  IF t.grp[w] = g THEN t
      ELSE Assign(IF In(t, g) \subseteq t.sticky \cup t.hidden THEN HideAll(t, {w}) ELSE t, {w}, g)

ToggleMembership(t, w) ==
  LET g == <<t.sc[w], t.current[t.sc[w]]>>
  IN  Assign(t, {w}, IF t.grp[w] = g THEN <<t.sc[w], 0>> ELSE g)

-----------------------------------------------------------------------------
(* Cycling.                                                                *)

\* client_next and client_prev, which wrap in the list of the client's output
NextOf(t, c) == IF t.nxt[c] # Null THEN t.nxt[c] ELSE t.nxt[t.sc[c]]

\* TAILQ_PREV, and TAILQ_LAST of a head; a freed client on the way is the result
Prev(t, x) ==
  LET back == t.prv[x]
  IN  IF back \in t.freed THEN back
      ELSE IF t.prv[back] \in t.freed THEN t.prv[back] ELSE t.nxt[t.prv[back]]

PrevOf(t, c) == IF Prev(t, c) # Null THEN Prev(t, c) ELSE Prev(t, t.sc[c])

Cycle(t, o, dir, ingroup) ==
  LET old == IF t.cur # Null THEN t.cur ELSE IF dir = -1 THEN Prev(t, o) ELSE t.nxt[o]
      Step(c) == IF c \in t.freed \cup {Null} THEN c
                 ELSE IF dir = 1 THEN NextOf(t, c) ELSE PrevOf(t, c)
      at[k \in 0..N] == IF k = 0 THEN old ELSE Step(at[k - 1])
      Fits(c) == c \notin t.hidden /\ (ingroup => t.grp[c] = t.grp[old])
      stops == {k \in 1..N : at[k] \in t.freed \cup {Null, old} \/ Fits(at[k])}
      newcc == at[CHOOSE k \in stops : \A j \in stops : k <= j]
  IN  IF t.nxt[o] = Null THEN t
      ELSE IF old \in t.freed \/ (stops # {} /\ newcc \in t.freed) THEN [t EXCEPT !.status = "freed"]
      ELSE IF stops = {} THEN [t EXCEPT !.status = "hang"]
      ELSE IF newcc = Null THEN [t EXCEPT !.status = "null"]
      ELSE IF Fits(newcc) THEN [t EXCEPT !.cycling = @ \cup {o}] ELSE t

\* client_cycle_leave
CycleLeave(t, o) ==
  LET u == [t EXCEPT !.cycling = @ \ {o}]
  IN  IF u.cur = Null THEN u ELSE MoveToFront(u, u.cur)

-----------------------------------------------------------------------------
(* Events.  screen_find gives the first output for the root window.        *)

First == Head(Screenq)

\* The handler runs to its end, or cwm to its own
Handle(t) ==
  /\ s.status = "ok"
  /\ s' = IF t.status = "ok" THEN t ELSE [s EXCEPT !.status = t.status]
  /\ UNCHANGED crossed

\* A key acts on the current client, and with none on the output under the
\* pointer; a button on the window under the pointer
Here == IF s.cur # Null THEN {s.sc[s.cur]} ELSE Outputs
Target(w) == w \in s.live /\ (w = s.cur \/ Found(s, w))

MapRequest(w, o, n) ==
  w \notin s.live \cup s.freed /\ Handle(ClientInit(s, w, o, n))

\* DestroyNotify, or UnmapNotify of a client that is not hidden
Gone(w) == w \in s.live /\ Found(s, w) /\ Handle(Delete(s, w))

EnterNotify(w) == w \in s.live /\ Found(s, w) /\ Handle(SetActive(s, w))
EnterRoot      == s.cur # Null /\ Handle(None(s))

\* The user moves a window, with keys or the mouse
MoveTo(w, o) ==
  /\ Target(w) /\ s.status = "ok"
  /\ s' = Move(s, w, o)
  /\ crossed' = crossed + (IF o # s.sc[w] THEN 1 ELSE 0)
  /\ crossed' <= MaxCrossed

KbHide(w)             == Target(w) /\ Handle(HideAll(s, {w}))
KbToggleSticky(w)     == Target(w) /\ Handle(ToggleSticky(s, w))
KbMoveToGroup(w, n)   == Target(w) /\ Handle(MoveToGroup(s, w, n))
KbGroupToggle(w)      == Target(w) /\ Handle(ToggleMembership(s, w))
KbGroup(o, n) ==
  o \in Here /\ (Handle(GroupShow(s, <<o, n>>)) \/ Handle(GroupHide(s, <<o, n>>)))
KbGroupOnly(o, n)     == o \in Here /\ Handle(GroupOnly(s, o, n))
KbCycle(o, dir, ingr) == o \in Here /\ Handle(Cycle(s, o, dir, ingr))
KeyRelease            == Handle(CycleLeave(s, First))

\* A pager knows one current desktop; the first output obeys
MsgCurrentDesktop(n) == Handle(GroupOnly(s, First, n))

\* The search menu, of the windows of all outputs
Search(w) ==
  /\ Found(s, w) /\ w \in s.live
  /\ LET t == UnhideAll(s, {w})
         u == GroupHide(t, <<First, t.current[First]>>)
     IN  Handle([u EXCEPT !.current[u.grp[w][1]] = u.grp[w][2]])

Next ==
  \/ \E w \in Windows :
       \/ \E o \in Outputs, n \in Groups : MapRequest(w, o, n)
       \/ Gone(w) \/ EnterNotify(w) \/ KbHide(w) \/ KbToggleSticky(w)
       \/ KbGroupToggle(w) \/ Search(w)
       \/ \E o \in Outputs : MoveTo(w, o)
       \/ \E n \in Groups : KbMoveToGroup(w, n)
  \/ \E o \in Outputs, n \in Groups : KbGroup(o, n) \/ KbGroupOnly(o, n)
  \/ \E o \in Outputs, dir \in {1, -1}, ingr \in BOOLEAN : KbCycle(o, dir, ingr)
  \/ \E n \in Groups : MsgCurrentDesktop(n)
  \/ EnterRoot \/ KeyRelease

Spec == Init /\ [][Next]_svars

-----------------------------------------------------------------------------
(* Properties.                                                             *)

\* A window that is not sticky is in a group of the output it is on, whatever
\* moved it, stuck it or took it out again: client_move, group_movetogroup,
\* group_toggle_membership_enter and client_toggle_sticky agree.  (A sticky one
\* may be drawn into a group of the output it came from, whose list it is in.)
OwnGroup == \A w \in s.live \ s.sticky : s.grp[w][1] = s.sc[w]

\* What a key does to the groups of one output hides, shows and moves no window
\* of another, though a window may have come from there (group_only, group_show
\* and group_hide).
OutputsApart ==
  [][\A o \in Outputs :
       (\E w \in s.live \ s.sticky :
          s.sc[w] # o /\ (s'.grp[w] # s.grp[w] \/ (w \in s'.hidden) # (w \in s.hidden)))
       => \A n \in Groups : ~KbGroup(o, n) /\ ~KbGroupOnly(o, n)]_svars

\* The one focus of all outputs is on a client that is neither freed nor
\* hidden, whichever output hides or deletes it (client_none).
FocusIsLive == s.cur # Null => s.cur \in s.live \ s.hidden

\* As long as every window stays on the output it was opened on, each list holds
\* the windows of its output, forwards and backwards, and no handler touches a
\* freed client or walks for ever: queue.h, client_mtf and client_delete.
SoundUntilCrossed ==
  crossed = 0 =>
    /\ s.status = "ok"
    /\ \A o \in Outputs :
         LET q == After(s, o)
             n == Cardinality(Members(s, o))
         IN  /\ Members(s, o) = {w \in s.live : s.sc[w] = o}
             /\ s.prv[o] = q[n]
             /\ \A k \in 1..n : s.prv[q[k]] = q[k - 1]

\* client_move only has to "Update which monitor the client is on": cwm goes on
\* to work after it.
SurvivesMoves == s.status = "ok"

\* "reset when cycling mod is released" (client_cycle): after the release of the
\* key no output is cycling, so that the windows used next come first again in
\* the order of every output.
CyclingEnds == [][KeyRelease => s'.cycling = {}]_svars

=============================================================================
