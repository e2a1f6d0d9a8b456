------------------------------ MODULE Desktop -------------------------------
(***************************************************************************)
(* What cwm promises its user about windows, groups and the focus, without *)
(* lists, events, properties or flags: one step for each thing that may    *)
(* happen to what the user sees.  Module CwmDesktop shows that Cwm         *)
(* implements it.                                                          *)
(*                                                                         *)
(* A sticky window follows the group that was shown last, and is neither   *)
(* hidden nor shown with any group.                                        *)
(***************************************************************************)
EXTENDS Integers

CONSTANTS
  Windows,
  Desktops,    \* the groups of the screen
  First,       \* the group current at the start, one of Desktops
  Nowhere,     \* the group of a window cwm does not manage, none of Desktops
  NoWindow     \* the focus when no window has it, not in Windows

VARIABLES
  desk,        \* the group each window is in
  sticky,      \* the windows that are on every group
  shown,       \* the managed windows that are not hidden
  current,     \* the current group
  focus        \* the window with the focus

dvars == <<desk, sticky, shown, current, focus>>

Init ==
  /\ desk = [w \in Windows |-> Nowhere]
  /\ sticky = {}
  /\ shown = {}
  /\ current = First
  /\ focus = NoWindow

-----------------------------------------------------------------------------
On(g)  == {w \in Windows : desk[w] = g}
Loose  == {w \in Windows : desk[w] # Nowhere} \ sticky

\* The focus stays where it is unless its window disappears
FocusKept == focus' = IF focus \in shown' THEN focus ELSE NoWindow

\* The sticky windows join group g
Gather(g) == desk' = [w \in Windows |-> IF w \in sticky THEN g ELSE desk[w]]

-----------------------------------------------------------------------------
(* Windows come and go, and get the focus.                                 *)

Open(w, g) ==
  /\ desk[w] = Nowhere
  /\ desk' = [desk EXCEPT ![w] = g]
  /\ sticky' \in {sticky, sticky \cup {w}}
  /\ shown' \in {shown, shown \cup {w}}
  /\ UNCHANGED <<current, focus>>

Close(w) ==
  /\ desk' = [desk EXCEPT ![w] = Nowhere]
  /\ sticky' = sticky \ {w}
  /\ shown' = shown \ {w}
  /\ FocusKept
  /\ UNCHANGED current

Focus ==
  /\ focus' \in shown \cup {NoWindow}
  /\ UNCHANGED <<desk, sticky, shown, current>>

-----------------------------------------------------------------------------
(* What is done to one window.                                             *)

HideOne(w) ==
  /\ shown' = shown \ ({w} \ sticky)
  /\ FocusKept
  /\ UNCHANGED <<desk, sticky, current>>

ShowOne(w) ==
  /\ w \in Loose
  /\ shown' = shown \cup {w}
  /\ UNCHANGED <<desk, sticky, current, focus>>

\* A window its user moves to another group goes out of sight
Send(w, g) ==
  /\ desk[w] \notin {Nowhere, g}
  /\ desk' = [desk EXCEPT ![w] = g]
  /\ shown' = shown \ ({w} \ sticky)
  /\ FocusKept
  /\ UNCHANGED <<sticky, current>>

\* A window that a pager moves, and a dialog that follows its owner, goes out of
\* sight only if the group it joins has no window in sight
Join(w, g) ==
  /\ desk[w] \notin {Nowhere, g}
  /\ desk' = [desk EXCEPT ![w] = g]
  /\ shown' = IF On(g) \cap Loose \cap shown = {} THEN shown \ ({w} \ sticky)
              ELSE shown
  /\ FocusKept
  /\ UNCHANGED <<sticky, current>>

\* A window joins the current group, or leaves it for the first
Toggle(w) ==
  /\ desk[w] # Nowhere
  /\ desk' = [desk EXCEPT ![w] = IF @ = current THEN First ELSE current]
  /\ UNCHANGED <<sticky, shown, current, focus>>

Stick(w) ==
  /\ w \in Loose
  /\ sticky' = sticky \cup {w}
  /\ UNCHANGED <<desk, shown, current, focus>>

Unstick(w) ==
  /\ w \in sticky
  /\ sticky' = sticky \ {w}
  /\ desk' = [desk EXCEPT ![w] = current]
  /\ UNCHANGED <<shown, current, focus>>

-----------------------------------------------------------------------------
(* What is done to groups.                                                 *)

ShowGroup(g) ==
  /\ shown' = shown \cup (On(g) \cap Loose)
  /\ Gather(g)
  /\ UNCHANGED <<sticky, current, focus>>

HideGroup(g) ==
  /\ shown' = shown \ (On(g) \cap Loose)
  /\ FocusKept
  /\ UNCHANGED <<desk, sticky, current>>

\* Group g, and the sticky windows that were shown, are all there is to see
Switch(g) ==
  /\ current' = g
  /\ shown' = (shown \cap sticky) \cup (On(g) \cap Loose)
  /\ Gather(g)
  /\ FocusKept
  /\ UNCHANGED sticky

\* A search for a window: it is in sight, its group becomes the current one, and
\* another group that was current goes out of sight
Find(w) ==
  /\ desk[w] # Nowhere
  /\ current' = desk[w]
  /\ shown' = (shown \ (IF desk[w] = current THEN {} ELSE On(current) \cap Loose))
                \cup ({w} \cap Loose)
  /\ FocusKept
  /\ UNCHANGED <<desk, sticky>>

HideAll ==
  /\ shown' = shown \cap sticky
  /\ FocusKept
  /\ UNCHANGED <<desk, sticky, current>>

ShowAll ==
  /\ shown' = shown \cup Loose
  /\ desk' = desk \/ \E g \in Desktops : Gather(g)
  /\ UNCHANGED <<sticky, current, focus>>

Next ==
  \/ \E w \in Windows :
       \/ Close(w) \/ HideOne(w) \/ ShowOne(w) \/ Toggle(w)
       \/ Stick(w) \/ Unstick(w) \/ Find(w)
       \/ \E g \in Desktops : Open(w, g) \/ Send(w, g) \/ Join(w, g)
  \/ \E g \in Desktops : ShowGroup(g) \/ HideGroup(g) \/ Switch(g)
  \/ Focus \/ HideAll \/ ShowAll

Spec == Init /\ [][Next]_dvars

=============================================================================
