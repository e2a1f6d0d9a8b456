-------------------------------- MODULE Cwm --------------------------------
(***************************************************************************)
(* cwm on one screen: the event loop of xevents.c, the commands of         *)
(* kbfunc.c and mousefunc.c, and the applications and X server around it.  *)
(*                                                                         *)
(* Map, unmap and destroy events wait in evq, in the order the server sent *)
(* them, while key, button, crossing and client messages may be handled at *)
(* any moment: one that overtakes a queued event here is one that was sent *)
(* before it.  A handler runs to its end before the next event is read.    *)
(***************************************************************************)
EXTENDS Groups

CONSTANTS
  MaxEvents,   \* bound: commands and applications wait while evq is longer
  Calm,        \* commands and messages come only when cwm has read evq empty
  Habits       \* what applications do that tidy ones would not:
               \*   "withdraw_hidden"  withdraw a window cwm has hidden
               \*   "destroy_early"    destroy a window that asked to be mapped
               \*   "state_hidden"     use _NET_WM_STATE_HIDDEN
               \*   "state_sticky"     use _NET_WM_STATE_STICKY
               \*   "preset_desktop"   set _NET_WM_DESKTOP of a new window

ASSUME CwmAssumption ==
  /\ MaxEvents \in Nat \ {0}
  /\ Calm \in BOOLEAN
  /\ Habits \subseteq {"withdraw_hidden", "destroy_early",
                       "state_hidden", "state_sticky", "preset_desktop"}

VARIABLES
  \* cwm's memory
  clientq,         \* sc->clientq, most recently used first
  flags,           \* cc->flags
  group,           \* cc->group
  members,         \* gc->clientq
  hidden_groups,   \* the groups with GROUP_HIDDEN in gc->flags
  group_current,   \* sc->group_current
  hideall,         \* sc->hideall
  cycling,         \* sc->cycling
  curcc,           \* the current client
  alive,           \* FALSE once cwm has dereferenced a NULL client
  \* the windows and the X server
  app,             \* what the application wants of its window
  mapped,          \* the window is mapped
  wm_state,        \* its WM_STATE property
  wm_desktop,      \* its _NET_WM_DESKTOP property
  net_active,      \* _NET_ACTIVE_WINDOW on the root window
  net_desktop,     \* _NET_CURRENT_DESKTOP
  net_clients,     \* _NET_CLIENT_LIST, as a set
  evq              \* structure events cwm has not read

vars == <<clientq, flags, group, members, hidden_groups, group_current, hideall,
          cycling, curcc, alive, app, mapped, wm_state, wm_desktop,
          net_active, net_desktop, net_clients, evq>>

S == [clientq |-> clientq, flags |-> flags, group |-> group,
      members |-> members, hidden_groups |-> hidden_groups,
      group_current |-> group_current, hideall |-> hideall,
      cycling |-> cycling, curcc |-> curcc, alive |-> alive, app |-> app,
      mapped |-> mapped, wm_state |-> wm_state, wm_desktop |-> wm_desktop,
      net_active |-> net_active, net_desktop |-> net_desktop,
      net_clients |-> net_clients, evq |-> evq]

Become(t) ==
  /\ clientq' = t.clientq
  /\ flags' = t.flags
  /\ group' = t.group
  /\ members' = t.members
  /\ hidden_groups' = t.hidden_groups
  /\ group_current' = t.group_current
  /\ hideall' = t.hideall
  /\ cycling' = t.cycling
  /\ curcc' = t.curcc
  /\ alive' = t.alive
  /\ app' = t.app
  /\ mapped' = t.mapped
  /\ wm_state' = t.wm_state
  /\ wm_desktop' = t.wm_desktop
  /\ net_active' = t.net_active
  /\ net_desktop' = t.net_desktop
  /\ net_clients' = t.net_clients
  /\ evq' = t.evq

\* group_init makes group 0 current; nothing is managed
Init ==
  /\ clientq = <<>>
  /\ flags = [c \in Clients |-> {}]
  /\ group = [c \in Clients |-> NoGroup]
  /\ members = [g \in Groups |-> {}]
  /\ hidden_groups = {}
  /\ group_current = FirstGroup
  /\ hideall = FALSE
  /\ cycling = FALSE
  /\ curcc = NoClient
  /\ alive = TRUE
  /\ app = [w \in Windows |-> "gone"]
  /\ mapped = [w \in Windows |-> FALSE]
  /\ wm_state = [w \in Windows |-> "none"]
  /\ wm_desktop = [w \in Windows |-> NoGroup]
  /\ net_active = NoClient
  /\ net_desktop = FirstGroup
  /\ net_clients = {}
  /\ evq = <<>>

Room == Len(evq) < MaxEvents
Pending(w) == {evq[i].type : i \in {j \in DOMAIN evq : evq[j].win = w}}

----------------------------------------------------------------------------
(* Applications and the X server.                                          *)

\* A new window, which may already carry a _NET_WM_DESKTOP; its identifier
\* is not reused while cwm may still know it
AppCreate(w, g) ==
  /\ app[w] = "gone" /\ w \notin Managed(S) /\ Pending(w) = {}
  /\ g = NoGroup \/ "preset_desktop" \in Habits
  /\ Become([S EXCEPT !.app[w] = "withdrawn", !.wm_desktop[w] = g])

\* XMapWindow, which the server turns into a MapRequest
AppMap(w) ==
  /\ Room /\ app[w] # "gone" /\ ~mapped[w]
  /\ Become([S EXCEPT !.app[w] = "shown",
                      !.evq = Append(@, Event("MapRequest", w))])

\* XUnmapWindow, or XWithdrawWindow, which also sends a synthetic event
AppUnmap(w, synthetic) ==
  /\ Room /\ app[w] = "shown"
  /\ \/ mapped[w]
     \/ /\ "withdraw_hidden" \in Habits
        /\ "MapRequest" \notin Pending(w)
  /\ Become([S EXCEPT
       !.app[w] = "withdrawn",
       !.mapped[w] = FALSE,
       !.evq = @ \o (IF mapped[w] THEN <<Event("UnmapNotify", w)>> ELSE <<>>)
                 \o (IF synthetic THEN <<Event("SendUnmap", w)>> ELSE <<>>)])

AppDestroy(w) ==
  /\ Room /\ app[w] # "gone"
  /\ "MapRequest" \notin Pending(w) \/ "destroy_early" \in Habits
  /\ Become([S EXCEPT
       !.app[w] = "gone",
       !.mapped[w] = FALSE,
       !.wm_state[w] = "none",
       !.wm_desktop[w] = NoGroup,
       !.evq = @ \o (IF mapped[w] THEN <<Event("UnmapNotify", w)>> ELSE <<>>)
                 \o <<Event("DestroyNotify", w)>>])

App == \E w \in Windows :
  \/ \E g \in Groups \cup {NoGroup} : AppCreate(w, g)
  \/ AppMap(w)
  \/ \E b \in BOOLEAN : AppUnmap(w, b)
  \/ AppDestroy(w)

----------------------------------------------------------------------------
(* Structure events, in the order of the queue.                            *)

\* The head of evq is a type event for w; Rest is the state without it
Next_Event(type, w) == alive /\ evq # <<>> /\ Head(evq) = Event(type, w)
Rest == [S EXCEPT !.evq = Tail(@)]

\* The atoms an application may put in _NET_WM_STATE
Atoms == {a \in StateAtoms :
            \/ a = "HIDDEN" /\ "state_hidden" \in Habits
            \/ a = "STICKY" /\ "state_sticky" \in Habits}

\* Mutant of MapRequested: client_init checks the map state
MapRequestedOnlyMapped(s, w, hint, atoms) ==
  IF w \notin Managed(s) /\ (s.app[w] = "gone" \/ ~s.mapped[w]) THEN s
  ELSE LET t == IF w \in Managed(s) THEN s ELSE ClientInit(s, w, hint, atoms)
       IN IF Has(t, w, "IGNORE") THEN t ELSE PtrWarp(t, w)

\* What client_find or client_init gives xev_handle_maprequest; a window that
\* is gone gives NULL, which rule_apply dereferences
MapRequested(s, w, hint, atoms) ==
  IF w \notin Managed(s) /\ s.app[w] = "gone"
    THEN [s EXCEPT !.alive = FALSE]
    ELSE LET t == IF w \in Managed(s) THEN s ELSE ClientInit(s, w, hint, atoms)
         IN IF Has(t, w, "IGNORE") THEN t ELSE PtrWarp(t, w)

HandleMapRequest(w) ==
  /\ Next_Event("MapRequest", w)
  /\ \E hint \in {"none", "Normal", "Iconic"}, atoms \in SUBSET Atoms :
       Become(MapRequested(Rest, w, hint, atoms))

\* Mutant of HandleUnmapNotify: the test of CLIENT_HIDDEN is inverted
HandleUnmapNotifyInverted(w) ==
  /\ Next_Event("UnmapNotify", w)
  /\ Become(IF w \in Managed(S) /\ Has(S, w, "HIDDEN")
              THEN Delete(Rest, w) ELSE Rest)

HandleUnmapNotify(w) ==
  /\ Next_Event("UnmapNotify", w)
  /\ Become(IF w \in Managed(S) /\ ~Has(S, w, "HIDDEN")
              THEN Delete(Rest, w) ELSE Rest)

\* xev_handle_unmapnotify with send_event set
HandleSendUnmap(w) ==
  /\ Next_Event("SendUnmap", w)
  /\ Become(IF w \in Managed(S)
              THEN [Rest EXCEPT
                      !.wm_state = SetProperty(S, @, {w}, "Withdrawn")]
              ELSE Rest)

HandleDestroyNotify(w) ==
  /\ Next_Event("DestroyNotify", w)
  /\ Become(IF w \in Managed(S) THEN Delete(Rest, w) ELSE Rest)

Structure == \E w \in Windows :
  \/ HandleMapRequest(w)
  \/ HandleUnmapNotify(w)
  \/ HandleSendUnmap(w)
  \/ HandleDestroyNotify(w)

----------------------------------------------------------------------------
(* The pointer.                                                            *)

\* xev_handle_enternotify for a client; the event may be old
HandleEnter(w) ==
  /\ alive /\ w \in Managed(S)
  /\ Become(SetActive(S, w))

\* ... and for the root window
HandleEnterRoot ==
  /\ alive /\ curcc # NoClient
  /\ Become(None([S EXCEPT !.flags[curcc] = @ \ {"ACTIVE"}]))

Pointer == HandleEnterRoot \/ \E w \in Windows : HandleEnter(w)

----------------------------------------------------------------------------
(* Commands.  A key acts on the current client, a button on the client     *)
(* under the pointer, which may have been hidden since the button went     *)
(* down, and a key with no current client on a client_ctx allocated for    *)
(* it: only one that enters a group outlives the command.                  *)

Pointed == {w \in Managed(S) : Calm => w = curcc \/ mapped[w]}
Targets ==
  Pointed \cup (IF curcc = NoClient
                  THEN {f \in Fakes : group[f] = NoGroup} ELSE {})

\* The handler of a command or message runs and leaves state t
Handle(t) == alive /\ Room /\ (Calm => evq = <<>>) /\ Become(t)

KbHide(c)           == c \in Pointed /\ Handle(Hide(S, c))
KbToggleSticky(c)   == c \in Pointed /\ Handle(ToggleSticky(S, c))
KbMoveToGroup(c, g) == c \in Targets /\ Handle(MoveToGroup(S, c, g))
KbGroupToggle(c)    == c \in Targets /\ Handle(ToggleMembership(S, c))
KbGroup(g)          == Handle(GroupHideToggle(S, g))
KbGroupOnly(g)      == Handle(GroupOnly(S, g))
KbCycleGroup(dir)   == Handle(CycleGroup(S, dir))
KbNoGroup           == Handle(GroupAllToggle(S))
KbCycle(dir, ingrp) == Handle(Cycle(S, dir, ingrp))
KeyRelease          == Handle(CycleLeave(S))

\* The group menu; an empty choice changes nothing
MenuGroup(g) ==
  Handle(IF HoldsOnlyHidden(S, g) THEN GroupShow(S, g) ELSE GroupHide(S, g))

MouseMenuGroup(g) == ~HoldsOnlySticky(S, g) /\ MenuGroup(g)

\* The menu of hidden windows
Unhidden(w) == PtrWarp(Unhide(S, w), w)

MenuUnhide(w) ==
  /\ w \in Managed(S) /\ Has(S, w, "HIDDEN")
  /\ Handle(Unhidden(w))

\* The window search menu
Search(w) ==
  /\ w \in Managed(S)
  /\ LET t == PtrWarp(IF Has(S, w, "HIDDEN") THEN Unhide(S, w) ELSE S, w)
     IN Handle(GroupSetActive(GroupHide(t, t.group_current), t.group[w]))

Command ==
  \/ \E c \in Clients : KbHide(c) \/ KbToggleSticky(c) \/ KbGroupToggle(c)
  \/ \E c \in Clients, g \in Groups : KbMoveToGroup(c, g)
  \/ \E g \in Groups : KbGroup(g) \/ KbGroupOnly(g)
                       \/ MenuGroup(g) \/ MouseMenuGroup(g)
  \/ \E dir \in {1, -1} : KbCycleGroup(dir) \/ KbCycle(dir, TRUE)
                                            \/ KbCycle(dir, FALSE)
  \/ KbNoGroup \/ KeyRelease
  \/ \E w \in Windows : MenuUnhide(w) \/ Search(w)

----------------------------------------------------------------------------
(* Messages and properties from applications and pagers.                   *)

\* xu_ewmh_handle_net_wm_state_msg: one pass over the table of handlers
NetWmState(s, w, action, atoms) ==
  LET Due(t, a) == /\ a \in atoms
                   /\ \/ action = "add" /\ ~Has(t, w, a)
                      \/ action = "remove" /\ Has(t, w, a)
                      \/ action = "toggle"
      t1 == IF Due(s, "STICKY") THEN ToggleSticky(s, w) ELSE s
  IN IF Due(t1, "HIDDEN") THEN ToggleHidden(t1, w) ELSE t1

\* WM_CHANGE_STATE to IconicState
MsgIconify(w) == w \in Managed(S) /\ Handle(Hide(S, w))

\* _NET_WM_DESKTOP; all desktops (-1) is desktop 0
MsgDesktop(w, g) == w \in Managed(S) /\ Handle(MoveToGroup(S, w, g))

MsgState(w, action, atoms) ==
  w \in Managed(S) /\ Handle(NetWmState(S, w, action, atoms))

\* _NET_CURRENT_DESKTOP
MsgCurrentDesktop(g) == Handle(GroupOnly(S, g))

\* xev_handle_propertynotify for WM_TRANSIENT_FOR
PropertyTransient(w) == w \in Managed(S) /\ Handle(Transient(S, w))

Message ==
  \/ \E w \in Windows : MsgIconify(w) \/ PropertyTransient(w)
  \/ \E w \in Windows, g \in Groups : MsgDesktop(w, g)
  \/ \E w \in Windows, action \in {"add", "remove", "toggle"},
        atoms \in (SUBSET Atoms) \ {{}} : MsgState(w, action, atoms)
  \/ \E g \in Groups : MsgCurrentDesktop(g)

----------------------------------------------------------------------------
Next == App \/ Structure \/ Pointer \/ Command \/ Message

Spec == Init /\ [][Next]_vars

----------------------------------------------------------------------------
(* Properties of every behaviour.                                          *)

\* Every variable keeps its type (client.c, group.c and xevents.c).
TypeOK == S \in State

\* The CLIENT_ACTIVE flag, which client_setactive, client_hide and the root
\* branch of xev_handle_enternotify maintain by hand, is on the current client
\* and on no other, and the current client is one cwm manages: after
\* client_delete no pointer to the freed record is left in curcc.
ActiveIsCurrent ==
  /\ curcc # NoClient => curcc \in Managed(S)
  /\ \A c \in Clients : Has(S, c, "ACTIVE") <=> c = curcc

\* The lists of group.c agree with the back pointers cc->group; no list holds
\* a client twice; a managed client is in a group; nothing is remembered of a
\* window that client_delete let go.
ListsAgree ==
  /\ \A i, j \in DOMAIN clientq : clientq[i] = clientq[j] => i = j
  /\ \A c \in Clients, g \in Groups : c \in members[g] <=> group[c] = g
  /\ \A w \in Windows :
       IF w \in Managed(S) THEN group[w] \in Groups
                           ELSE group[w] = NoGroup /\ flags[w] = {}

\* A pager that reads the properties of the root window and of the clients
\* sees what cwm holds; _NET_CLIENT_LIST keeps its last value when the last
\* client goes (xu_ewmh_net_client_list).
PagerView ==
  /\ net_active = curcc
  /\ net_desktop = group_current
  /\ clientq # <<>> => net_clients = Managed(S)
  /\ \A w \in Managed(S) : app[w] # "gone" => wm_desktop[w] = group[w]

\* Outside a cycle the current client heads the most recently used order
\* that client_cycle walks, whatever was entered, hidden or deleted since.
CurrentIsMostRecent ==
  curcc # NoClient /\ ~cycling => Head(clientq) = curcc

\* The current client is on display: no command leaves a hidden client with
\* the focus (client_hide, group_hide and all their callers).
CurrentIsVisible == curcc # NoClient => ~Has(S, curcc, "HIDDEN")

\* A client cwm counts as hidden is not mapped: group_holds_only_hidden and
\* the menu of hidden windows go by the flag alone.
HiddenIsUnmapped == \A w \in Windows : Has(S, w, "HIDDEN") => ~mapped[w]

\* cwm never unmaps a window while it is sticky, whatever groups come and go:
\* only its application makes it disappear.
StickyStays ==
  [][\A w \in Windows :
       Has(S, w, "STICKY") /\ mapped[w] /\ app'[w] = app[w] => mapped'[w]]_vars

\* After a switch of desktop, by key or by _NET_CURRENT_DESKTOP, the display
\* holds the chosen group and nothing else, whatever _NET_WM_STATE did to the
\* flags before; the flags agree with it, the sticky clients have followed, and
\* the focus is not left in another group.
Switched(g) ==
  /\ \A w \in Managed(S) :
       IF Has(S, w, "STICKY") THEN group[w] = g
       ELSE /\ Has(S, w, "HIDDEN") <=> group[w] # g
            /\ app[w] # "gone" => (mapped[w] <=> group[w] = g)
  /\ curcc # NoClient => group[curcc] = g
OneGroupOnDisplay ==
  [][\A g \in Groups :
       group_current' = g /\ Become(GroupOnly(S, g)) => Switched(g)']_vars

\* A dialog that cwm takes over joins the group of the window it belongs to,
\* and is ignored with it, whatever group its own properties and the autogroup
\* directives ask for (client_init calls group_autogroup, then
\* client_transient).
DialogsJoin ==
  [][\A w \in Windows :
       LET owner == TransientFor[w]
       IN w \notin Managed(S) /\ owner \in Managed(S) /\ w \in Managed(S)'
            => /\ group'[w] = group[owner]
               /\ Has(S, owner, "IGNORE") => Has(S', w, "IGNORE")]_vars

----------------------------------------------------------------------------
(* Properties that commands racing with unread structure events break.     *)

\* "it'll be ours when we map it": a mapped window is a managed one.
MappedIsManaged == \A w \in Windows : mapped[w] => w \in Managed(S)

\* A managed window that is not on display, and of which no event is unread,
\* is in the menu of hidden windows.
UnmappedIsListed ==
  \A w \in Managed(S) :
    ~mapped[w] /\ Pending(w) = {} => Has(S, w, "HIDDEN")

\* A window its application has withdrawn is no client any more, so that no
\* group_show can map it again.
WithdrawnIsReleased ==
  \A w \in Managed(S) : Pending(w) = {} => app[w] = "shown"

\* xev_handle_maprequest never passes on the NULL that client_init returns.
NeverNull == alive

============================================================================
