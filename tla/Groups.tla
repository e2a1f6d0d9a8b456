------------------------------- MODULE Groups -------------------------------
(***************************************************************************)
(* The group operations of group.c on the state of module Clients, and the *)
(* client operations that call them.                                       *)
(*                                                                         *)
(* group_only and group_alltoggle loop over all groups in order.  Here     *)
(* they are closed forms; module Loops runs the loops one group at a time  *)
(* and compares what they leave with what the closed forms say.            *)
(***************************************************************************)
EXTENDS Clients

CONSTANTS
  Classless,   \* windows without a WM_CLASS
  Autogroup    \* the group the autogroup directives give a window, or NoGroup

ASSUME GroupsAssumption ==
  Autogroup \in [Windows -> Groups \cup {NoGroup}]

FirstGroup == 0

----------------------------------------------------------------------------
(* Membership.                                                             *)

\* Mutant of AssignAll: no TAILQ_REMOVE from the old group
AssignAllKeepOld(s, W, g) ==
  [s EXCEPT
     !.members[g] = @ \cup W,
     !.group      = [c \in Clients |-> IF c \in W THEN g ELSE @[c]],
     !.wm_desktop = SetProperty(s, @, W, g)]

\* group_assign(gc, cc) of every client of W
AssignAll(s, W, g) ==
  [s EXCEPT
     !.members = [h \in Groups |->
                    IF h = g THEN @[h] \cup W
                    ELSE @[h] \ {c \in W : s.group[c] = h}],
     !.group      = [c \in Clients |-> IF c \in W THEN g ELSE @[c]],
     !.wm_desktop = SetProperty(s, @, W, g)]

Assign(s, c, g) == AssignAll(s, {c}, g)

\* group_autogroup.  A _NET_WM_DESKTOP of -1 does what 0 does, one that is above
\* the number of groups what that of the last group does, and the number of
\* groups itself what none does for a window no autogroup names: wm_desktop has
\* those values already
AutogroupOf(s, w) ==
  IF w \in Classless THEN FirstGroup
  ELSE IF s.wm_desktop[w] # NoGroup THEN s.wm_desktop[w]
  ELSE IF Autogroup[w] # NoGroup THEN Autogroup[w]
  ELSE s.group_current

\* group_holds_only_sticky
HoldsOnlySticky(s, g) == \A c \in s.members[g] : Has(s, c, "STICKY")

\* group_holds_only_hidden: an empty group does
HoldsOnlyHidden(s, g) ==
  \A c \in s.members[g] : Has(s, c, "STICKY") \/ Has(s, c, "HIDDEN")

\* Mutant of MoveToGroup: the flag of client_hide without the unmapping
MoveToGroupFlagOnly(s, c, g) ==
  IF s.group[c] = g THEN s
  ELSE Assign(IF HoldsOnlyHidden(s, g)
                THEN [s EXCEPT !.flags[c] = @ \cup {"HIDDEN"}] ELSE s, c, g)

\* group_movetogroup
MoveToGroup(s, c, g) ==
  IF s.group[c] = g THEN s
  ELSE Assign(IF HoldsOnlyHidden(s, g) THEN Hide(s, c) ELSE s, c, g)

\* group_toggle_membership_enter
ToggleMembership(s, c) ==
  Assign(s, c, IF s.group[c] = s.group_current THEN FirstGroup
                                               ELSE s.group_current)

\* client_toggle_sticky
ToggleSticky(s, c) ==
  IF Has(s, c, "STICKY")
    THEN Assign([s EXCEPT !.flags[c] = @ \ {"STICKY"}], c, s.group_current)
    ELSE [s EXCEPT !.flags[c] = @ \cup {"STICKY"}]

\* client_toggle_hidden
ToggleHidden(s, c) ==
  [s EXCEPT !.flags[c] = IF "HIDDEN" \in @ THEN @ \ {"HIDDEN"}
                                           ELSE @ \cup {"HIDDEN"}]

\* client_transient; a window that is gone has no hint any more
Transient(s, w) ==
  LET tc == TransientFor[w]
  IN IF \/ s.app[w] = "gone" \/ tc \notin Managed(s)
        \/ s.group[tc] = NoGroup
       THEN s
     ELSE LET t == MoveToGroup(s, w, s.group[tc])
          IN IF Has(s, tc, "IGNORE")
               THEN [t EXCEPT !.flags[w] = @ \cup {"IGNORE"}] ELSE t

\* Mutant of ClientInit: client_transient before group_autogroup
ClientInitTransientFirst(s, w, hint, atoms) ==
  LET a == IF hint # "none" /\ ~s.mapped[w]
             THEN [s EXCEPT !.wm_state[w] = hint] ELSE s
      b == Transient(a, w)
      c == Assign(b, w, AutogroupOf(b, w))
      d == IF w \in Ignored
             THEN [c EXCEPT !.flags[w] = @ \cup {"IGNORE"}] ELSE c
      e == ListClients([d EXCEPT !.clientq = Append(@, w)])
  IN IF e.wm_state[w] = "Iconic" THEN Hide(e, w) ELSE Unhide(e, w)

\* Mutant of ClientInit: no client_unhide at the end
ClientInitNoUnhide(s, w, hint, atoms) ==
  LET a == IF hint # "none" /\ ~s.mapped[w]
             THEN [s EXCEPT !.wm_state[w] = hint] ELSE s
      b == Transient(Assign(a, w, AutogroupOf(a, w)), w)
      e == ListClients([b EXCEPT !.clientq = Append(@, w)])
  IN IF e.wm_state[w] = "Iconic" THEN Hide(e, w) ELSE e

\* client_init of a window that exists: hint is the initial state in its
\* WM_HINTS, atoms the _NET_WM_STATE it carries
ClientInit(s, w, hint, atoms) ==
  LET a == IF hint # "none" /\ ~s.mapped[w]
             THEN [s EXCEPT !.wm_state[w] = hint] ELSE s
      b == Assign(a, w, AutogroupOf(a, w))
      c == IF w \in Ignored
             THEN [b EXCEPT !.flags[w] = @ \cup {"IGNORE"}] ELSE b
      d == Transient(c, w)
      e == ListClients([d EXCEPT !.clientq = Append(@, w)])
      f == IF "STICKY" \in atoms THEN ToggleSticky(e, w) ELSE e
      g == IF "HIDDEN" \in atoms THEN ToggleHidden(f, w) ELSE f
  IN IF g.wm_state[w] = "Iconic" THEN Hide(g, w) ELSE Unhide(g, w)

----------------------------------------------------------------------------
(* Showing and hiding groups.                                              *)

StickyClients(s) == {w \in Managed(s) : Has(s, w, "STICKY")}

\* group_hide
GroupHide(s, g) == HideAll(s, s.members[g])

\* Mutant of GroupShow: the sticky clients stay where they are
GroupShowNoSticky(s, g) == UnhideAll(s, s.members[g])

\* group_show: every sticky client of the screen joins the group
GroupShow(s, g) ==
  LET t == UnhideAll(s, s.members[g])
  IN AssignAll(t, StickyClients(t), g)

\* group_setactive
GroupSetActive(s, g) == [s EXCEPT !.group_current = g, !.net_desktop = g]

\* group_hidetoggle, the only code that sets or clears GROUP_HIDDEN
GroupHideToggle(s, g) ==
  IF g \in s.hidden_groups
    THEN [GroupShow(s, g) EXCEPT !.hidden_groups = @ \ {g}]
    ELSE [GroupHide(s, g) EXCEPT !.hidden_groups = @ \cup {g}]

\* group_only
GroupOnly(s, g) ==
  LET t == HideAll(s, UNION {s.members[h] : h \in Groups \ {g}})
  IN GroupShow(GroupSetActive(t, g), g)

\* group_cycle
CycleGroup(s, dir) == GroupOnly(s, (s.group_current + dir) % NGROUPS)

\* group_alltoggle.  When it shows, the sticky clients follow the loop: they
\* leave the groups not yet visited, and a group they leave empty is skipped
GroupAllToggle(s) ==
  LET full  == {g \in Groups : s.members[g] # {}}
      solid == {g \in full : ~(s.members[g] \subseteq StickyClients(s))}
      first == {g \in full : \A h \in full : g <= h}
      shown == solid \cup first
      last  == {g \in shown : \A h \in shown : h <= g}
      all   == UNION {s.members[g] : g \in full}
      toggled == [s EXCEPT !.hideall = ~@]
  IN IF ~s.hideall THEN HideAll(toggled, all)
     ELSE LET t == UnhideAll(toggled, all)
          IN IF last = {} THEN t
             ELSE AssignAll(t, StickyClients(t), CHOOSE g \in last : TRUE)

============================================================================
