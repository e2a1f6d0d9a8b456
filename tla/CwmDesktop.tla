----------------------------- MODULE CwmDesktop -----------------------------
(***************************************************************************)
(* Cwm implements Desktop: every handler and command, seen through the     *)
(* flags and the groups of the clients, is one step of what is promised,   *)
(* and the step it was asked for.  Two commands do not always keep the     *)
(* promise; the steps at which they depart from it are named here.         *)
(***************************************************************************)
EXTENDS Cwm

D == INSTANCE Desktop WITH
       Desktops <- Groups, First <- FirstGroup, Nowhere <- NoGroup,
       NoWindow <- NoClient,
       desk    <- [w \in Windows |-> group[w]],
       sticky  <- {w \in Windows : "STICKY" \in flags[w]},
       shown   <- {w \in ToSet(clientq) : "HIDDEN" \notin flags[w]},
       current <- group_current,
       focus   <- curcc

\* What every handler and command that changes something is asked to do
Asked ==
  \/ \E w \in Windows :
       \/ HandleMapRequest(w) /\ (D!ShowOne(w) \/ \E g \in Groups : D!Open(w, g))
       \/ (HandleUnmapNotify(w) \/ HandleDestroyNotify(w)) /\ D!Close(w)
       \/ (KbHide(w) \/ MsgIconify(w)) /\ D!HideOne(w)
       \/ MenuUnhide(w) /\ D!ShowOne(w)
       \/ KbGroupToggle(w) /\ D!Toggle(w)
       \/ KbToggleSticky(w) /\ (D!Stick(w) \/ D!Unstick(w))
       \/ /\ \E action \in {"add", "remove", "toggle"}, atoms \in SUBSET Atoms :
               MsgState(w, action, atoms)
          /\ D!Stick(w) \/ D!Unstick(w)
       \/ Search(w) /\ D!Find(w)
       \/ \E g \in Groups :
            \/ KbMoveToGroup(w, g) /\ D!Send(w, g)
            \/ (MsgDesktop(w, g) \/ PropertyTransient(w)) /\ D!Join(w, g)
  \/ \E g \in Groups :
       \/ (KbGroup(g) \/ MenuGroup(g) \/ MouseMenuGroup(g))
            /\ (D!ShowGroup(g) \/ D!HideGroup(g))
       \/ /\ \/ KbGroupOnly(g) \/ MsgCurrentDesktop(g)
             \/ \E dir \in {1, -1} :
                  KbCycleGroup(dir) /\ g = (group_current + dir) % NGROUPS
          /\ D!Switch(g)
  \/ KbNoGroup /\ (D!HideAll \/ D!ShowAll)
  \/ Pointer /\ D!Focus

\* A search hides the group that was current even when the window it has found
\* is in it, and movetogroup leaves the window in sight when it moves to a group
\* with a window in sight (group_holds_only_hidden)
Departs ==
  \E w \in Windows, g \in Groups :
    \/ Search(w) /\ g = group[w] /\ g = group_current /\ D!HideGroup(g)
    \/ KbMoveToGroup(w, g) /\ ~HoldsOnlyHidden(S, g) /\ D!Join(w, g)

\* What any command, message, crossing or structure event does to the groups,
\* the sticky and hidden windows and the focus is a step of Desktop, and the one
\* it was asked for unless it is one of the two departures: no other handler of
\* xevents.c, kbfunc.c or mousefunc.c hides a window it was not asked to hide,
\* lets a sticky window be left behind in a group, or leaves the focus on a
\* window that is gone or hidden.
ImplementsDesktop == D!Spec /\ [][Asked \/ Departs]_(D!dvars)

\* "Search for windows": a hidden window that is chosen comes in sight, and "the
\* active group" becomes the one it is on (kbfunc_client_search).
SearchFinds ==
  [][\A w \in Windows : Search(w) /\ Has(S, w, "HIDDEN") => D!Find(w)]_vars

\* movetogroup: "Hide current window from display and move to group n, where n is
\* 1-9", here a group that is not the current one (group_movetogroup).
MoveHides ==
  [][\A w \in Windows, g \in Groups \ {FirstGroup, group_current} :
       KbMoveToGroup(w, g) /\ group[w] # g => D!Send(w, g)]_vars

=============================================================================
