------------------------------ MODULE Clients ------------------------------
(***************************************************************************)
(* The client operations of client.c, for the windows of one screen.       *)
(*                                                                         *)
(* A C function that changes cwm's memory or the X server is an operator   *)
(* from a state to the state it leaves: Hide(s, c) is client_hide(cc).     *)
(* The state is a record whose fields are the variables of module Cwm.     *)
(* Where the code runs a function over all the members of a list, the      *)
(* operator takes the set of members: the iterations touch distinct        *)
(* clients, so only the order of the UnmapNotify events depends on theirs. *)
(*                                                                         *)
(* An X request acts on the server at once; a request about a window that  *)
(* is gone is a BadWindow error, which x_errorhandler ignores.             *)
(***************************************************************************)
EXTENDS Integers, FiniteSets, SequencesExt

CONSTANTS
  Windows,        \* the X windows applications may create
  Fakes,          \* the client_ctx that key bindings allocate when no window
                  \* is current; none of them is ever put in clientq
  NoClient,       \* the NULL client, and the window None
  NGROUPS,        \* CALMWM_NGROUPS, 10 in the code
  Ignored,        \* windows named by an "ignore" directive
  TransientFor    \* the WM_TRANSIENT_FOR hint of each window, or NoClient

Clients  == Windows \cup Fakes
Groups   == 0 .. NGROUPS - 1
NoGroup  == -1    \* the NULL group, or a window without _NET_WM_DESKTOP
Flags    == {"HIDDEN", "ACTIVE", "STICKY", "IGNORE"}
StateAtoms == {"STICKY", "HIDDEN"} \* the _NET_WM_STATE atoms modelled

ASSUME ClientsAssumption ==
  /\ IsFiniteSet(Windows)
  /\ Windows \cap Fakes = {}
  /\ NoClient \notin Clients
  /\ NGROUPS \in Nat \ {0}
  /\ TransientFor \in [Windows -> Windows \cup {NoClient}]

EventTypes == {"MapRequest", "UnmapNotify", "SendUnmap", "DestroyNotify"}
Event(type, w) == [type |-> type, win |-> w]

State ==
  [ clientq       : Seq(Windows),
    flags         : [Clients -> SUBSET Flags],
    group         : [Clients -> Groups \cup {NoGroup}],
    members       : [Groups -> SUBSET Clients],
    hidden_groups : SUBSET Groups,
    group_current : Groups,
    hideall       : BOOLEAN,
    cycling       : BOOLEAN,
    curcc         : Windows \cup {NoClient},
    alive         : BOOLEAN,
    app           : [Windows -> {"gone", "withdrawn", "shown"}],
    mapped        : [Windows -> BOOLEAN],
    wm_state      : [Windows -> {"none", "Normal", "Iconic", "Withdrawn"}],
    wm_desktop    : [Windows -> Groups \cup {NoGroup}],
    net_active    : Windows \cup {NoClient},
    net_desktop   : Groups,
    net_clients   : SUBSET Windows,
    evq           : Seq([type : EventTypes, win : Windows]) ]

----------------------------------------------------------------------------
(* Lists and flags.                                                        *)

Managed(s) == ToSet(s.clientq)
Has(s, c, flag) == flag \in s.flags[c]

\* TAILQ_REMOVE
Unlink(q, c) ==
  IF \E i \in DOMAIN q : q[i] = c
    THEN RemoveAt(q, CHOOSE i \in DOMAIN q : q[i] = c)
    ELSE q

\* cc->flags &= ~del; cc->flags |= add, for every client of W
Reflag(f, W, del, add) ==
  [c \in Clients |-> IF c \in W THEN (f[c] \ del) \cup add ELSE f[c]]

\* XChangeProperty(..., v) on the windows of W
SetProperty(s, p, W, v) ==
  [w \in Windows |-> IF w \in W /\ s.app[w] # "gone" THEN v ELSE p[w]]

\* one event for each window of W, in some order
Events(type, W) ==
  LET q == SetToSeq(W) IN [i \in DOMAIN q |-> Event(type, q[i])]

\* xu_ewmh_net_client_list leaves the old list when no client remains
ListClients(s) ==
  [s EXCEPT !.net_clients = IF s.clientq = <<>> THEN @ ELSE Managed(s)]

----------------------------------------------------------------------------
(* Showing and hiding.                                                     *)

\* Mutant of HideAll: no test for CLIENT_STICKY
HideAllStickyToo(s, W) ==
  [s EXCEPT
     !.flags      = Reflag(@, W, {"ACTIVE"}, {"HIDDEN"}),
     !.mapped     = [w \in Windows |-> @[w] /\ w \notin W],
     !.evq        = @ \o Events("UnmapNotify", {w \in W \cap Windows : s.mapped[w]}),
     !.wm_state   = SetProperty(s, @, W, "Iconic"),
     !.curcc      = IF s.curcc \in W THEN NoClient ELSE @,
     !.net_active = IF s.curcc \in W THEN NoClient ELSE @]

\* Mutant of HideAll: no client_none for the current client
HideAllKeepCurrent(s, W) ==
  LET L == {c \in W : ~Has(s, c, "STICKY")}
  IN [s EXCEPT
        !.flags    = Reflag(@, L, {"ACTIVE"}, {"HIDDEN"}),
        !.mapped   = [w \in Windows |-> @[w] /\ w \notin L],
        !.evq      = @ \o Events("UnmapNotify",
                                 {w \in L \cap Windows : s.mapped[w]}),
        !.wm_state = SetProperty(s, @, L, "Iconic")]

\* client_hide of every client of W
HideAll(s, W) ==
  LET L == {c \in W : ~Has(s, c, "STICKY")}
      U == {w \in L \cap Windows : s.mapped[w]}
      lost == s.curcc \in L
  IN [s EXCEPT
        !.flags      = Reflag(@, L, {"ACTIVE"}, {"HIDDEN"}),
        !.mapped     = [w \in Windows |-> @[w] /\ w \notin L],
        !.evq        = @ \o Events("UnmapNotify", U),
        !.wm_state   = SetProperty(s, @, L, "Iconic"),
        !.curcc      = IF lost THEN NoClient ELSE @,
        !.net_active = IF lost THEN NoClient ELSE @]

Hide(s, c) == HideAll(s, {c})

\* Mutant of UnhideAll: the CLIENT_HIDDEN flag stays
UnhideAllKeepFlag(s, W) ==
  LET L == {c \in W : ~Has(s, c, "STICKY")}
  IN [s EXCEPT
        !.mapped   = [w \in Windows |->
                        @[w] \/ (w \in L /\ s.app[w] # "gone")],
        !.wm_state = SetProperty(s, @, L, "Normal")]

\* client_unhide of every client of W
UnhideAll(s, W) ==
  LET L == {c \in W : ~Has(s, c, "STICKY")}
  IN [s EXCEPT
        !.flags    = Reflag(@, L, {"HIDDEN"}, {}),
        !.mapped   = [w \in Windows |->
                        @[w] \/ (w \in L /\ s.app[w] # "gone")],
        !.wm_state = SetProperty(s, @, L, "Normal")]

Unhide(s, c) == UnhideAll(s, {c})

\* client_ptrwarp; the other branch only raises the window
PtrWarp(s, c) == IF Has(s, c, "HIDDEN") THEN Unhide(s, c) ELSE s

----------------------------------------------------------------------------
(* The current client.                                                     *)

\* Mutant of None: _NET_ACTIVE_WINDOW is left alone
NoneKeepProperty(s) == [s EXCEPT !.curcc = NoClient]

\* client_none
None(s) == [s EXCEPT !.net_active = NoClient, !.curcc = NoClient]

\* client_mtf
MoveToFront(s, c) == [s EXCEPT !.clientq = <<c>> \o Unlink(@, c)]

\* Mutant of SetActive: the client that was current keeps its flag
SetActiveKeepOld(s, c) ==
  IF Has(s, c, "HIDDEN") THEN s
  ELSE LET t == IF s.cycling THEN s ELSE MoveToFront(s, c)
       IN [t EXCEPT !.flags = Reflag(@, {c}, {}, {"ACTIVE"}),
                    !.curcc = c, !.net_active = c]

\* Mutant of SetActive: no early return for a hidden client
SetActiveHiddenToo(s, c) ==
  LET t == IF s.cycling THEN s ELSE MoveToFront(s, c)
  IN [t EXCEPT !.flags = Reflag(Reflag(@, {t.curcc}, {"ACTIVE"}, {}),
                                {c}, {}, {"ACTIVE"}),
               !.curcc = c, !.net_active = c]

\* client_setactive
SetActive(s, c) ==
  IF Has(s, c, "HIDDEN") THEN s
  ELSE LET t == IF s.cycling THEN s ELSE MoveToFront(s, c)
       IN [t EXCEPT
             !.flags = Reflag(Reflag(@, {t.curcc}, {"ACTIVE"}, {}),
                              {c}, {}, {"ACTIVE"}),
             !.curcc = c,
             !.net_active = c]

\* Mutant of Delete: the client stays in the list of its group
DeleteKeepMember(s, c) ==
  LET t == ListClients([s EXCEPT !.clientq = Unlink(@, c)])
      v == IF c = t.curcc THEN None(t) ELSE t
  IN [v EXCEPT !.flags[c] = {}, !.group[c] = NoGroup]

\* client_delete: the record is freed, and cwm knows nothing of c any more
Delete(s, c) ==
  LET t == ListClients([s EXCEPT !.clientq = Unlink(@, c)])
      g == s.group[c]
      u == IF g \in Groups
             THEN [t EXCEPT !.members[g] = @ \ {c}] ELSE t
      v == IF c = u.curcc THEN None(u) ELSE u
  IN [v EXCEPT !.flags[c] = {}, !.group[c] = NoGroup]

----------------------------------------------------------------------------
(* Cycling.                                                                *)

\* The window client_cycle warps to, dir steps at a time around clientq from
\* the current client; NoClient when none can be shown
CycleTarget(s, dir, ingroup) ==
  LET q   == s.clientq
      n   == Len(q)
      old == IF s.curcc # NoClient THEN s.curcc
             ELSE IF dir = 1 THEN q[1] ELSE q[n]
      pos == CHOOSE i \in 1 .. n : q[i] = old
      At(k) == q[((pos - 1 + dir * k) % n) + 1]
      hits == {k \in 1 .. n :
                 /\ s.flags[At(k)] \cap {"HIDDEN", "IGNORE"} = {}
                 /\ ingroup => s.group[At(k)] = s.group[old]}
  IN IF hits = {} THEN NoClient
     ELSE At(CHOOSE k \in hits : \A j \in hits : k <= j)

\* client_cycle; an EnterNotify follows the pointer to the target
Cycle(s, dir, ingroup) ==
  IF s.clientq = <<>> \/ CycleTarget(s, dir, ingroup) = NoClient THEN s
  ELSE PtrWarp([s EXCEPT !.cycling = TRUE], CycleTarget(s, dir, ingroup))

\* Mutant of CycleLeave: no client_mtf
CycleLeaveKeepOrder(s) == [s EXCEPT !.cycling = FALSE]

\* Mutant of CycleLeave: no test for a NULL current client
CycleLeaveNull(s) == MoveToFront([s EXCEPT !.cycling = FALSE], s.curcc)

\* client_cycle_leave
CycleLeave(s) ==
  LET t == [s EXCEPT !.cycling = FALSE]
  IN IF t.curcc = NoClient THEN t ELSE MoveToFront(t, t.curcc)

============================================================================
