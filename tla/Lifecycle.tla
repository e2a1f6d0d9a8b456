----------------------------- MODULE Lifecycle ------------------------------
(***************************************************************************)
(* cwm stopping and starting again among windows that go on living: a      *)
(* restart, a crash, or another start after quitting.                      *)
(*                                                                         *)
(* What outlives cwm is what the server holds: the windows, their WM_STATE,*)
(* _NET_WM_DESKTOP and _NET_WM_STATE, and cwm's save-set, whose unmapped   *)
(* windows the server maps when the connection closes (execvp closes it).  *)
(* The variables of cwm's memory keep their last value while cwm is down,  *)
(* and nothing reads them until Start throws them away.                    *)
(***************************************************************************)
EXTENDS Cwm

VARIABLES
  running,     \* cwm_status is CWM_RUNNING
  save_set,    \* the windows given to XAddToSaveSet that still exist
  net_state    \* the _NET_WM_STATE of each window

lvars == <<vars, running, save_set, net_state>>

LInit ==
  /\ Init
  /\ running = TRUE
  /\ save_set = {}
  /\ net_state = [w \in Windows |-> {}]

----------------------------------------------------------------------------
(* While cwm runs.                                                         *)

\* client_init adds to the save-set, and nothing but the end of the window
\* takes it away; client_toggle_sticky rewrites the property from the flags
Remembered ==
  /\ save_set' = {w \in save_set \cup Managed(S)' : app'[w] # "gone"}
  /\ net_state' = [w \in Windows |->
       IF app'[w] = "gone" THEN {}
       ELSE IF /\ w \in Managed(S) /\ w \in Managed(S)'
               /\ ("STICKY" \in flags[w]) # ("STICKY" \in flags'[w])
         THEN flags'[w] \cap StateAtoms
       ELSE net_state[w]]

\* A MapRequest, for a window whose property may be left from an earlier time
Mapping(w) ==
  /\ Next_Event("MapRequest", w)
  /\ \E hint \in {"none", "Normal", "Iconic"} :
       Become(MapRequested(Rest, w, hint, net_state[w]))

Reading ==
  \E w \in Windows : \/ Mapping(w) \/ HandleUnmapNotify(w)
                     \/ HandleSendUnmap(w) \/ HandleDestroyNotify(w)

Live == running /\ UNCHANGED running

----------------------------------------------------------------------------
(* Stopping and starting.                                                  *)

\* x_teardown and the end of the connection, or a crash: events that are not
\* read are lost, and the server maps the windows of the save-set
Stop ==
  /\ running
  /\ running' = FALSE
  /\ save_set' = {}
  /\ Become([S EXCEPT !.evq = <<>>,
                      !.mapped = [w \in Windows |-> @[w] \/ w \in save_set]])
  /\ UNCHANGED net_state

\* Applications without a window manager: the server maps what they map
DownMap(w) ==
  /\ app[w] # "gone"
  /\ Become([S EXCEPT !.app[w] = "shown", !.mapped[w] = TRUE])

DownUnmap(w) ==
  /\ app[w] # "gone"
  /\ Become([S EXCEPT !.app[w] = "withdrawn", !.mapped[w] = FALSE])

DownDestroy(w) ==
  /\ app[w] # "gone"
  /\ Become([S EXCEPT !.app[w] = "gone", !.mapped[w] = FALSE,
                      !.wm_state[w] = "none", !.wm_desktop[w] = NoGroup])

Down ==
  /\ ~running
  /\ \E w \in Windows : DownMap(w) \/ DownUnmap(w) \/ DownDestroy(w)
  /\ net_state' = [w \in Windows |->
                      IF app'[w] = "gone" THEN {} ELSE net_state[w]]
  /\ UNCHANGED <<running, save_set>>

\* What screen_init_contents and group_init leave before the scan
Fresh ==
  [S EXCEPT !.clientq = <<>>, !.flags = [c \in Clients |-> {}],
            !.group = [c \in Clients |-> NoGroup],
            !.members = [g \in Groups |-> {}], !.hidden_groups = {},
            !.group_current = FirstGroup, !.net_desktop = FirstGroup,
            !.hideall = FALSE, !.cycling = FALSE, !.curcc = NoClient]

\* Mutant of Scan: groups are given out afresh
ScanNoDesktop(order, under) ==
  LET One(s, w) ==
        LET t == ClientInit([s EXCEPT !.wm_desktop[w] = NoGroup], w, "none",
                            net_state[w])
        IN IF w \in under THEN SetActive(t, w) ELSE t
  IN FoldLeft(One, Fresh, order)

\* Mutant of Scan: the focus before the window is known to be hidden
ScanFocusFirst(order, under) ==
  LET One(s, w) ==
        LET t == ClientInit([s EXCEPT !.wm_state[w] = "Normal"], w, "none",
                            net_state[w])
            u == IF w \in under THEN SetActive(t, w) ELSE t
        IN IF s.wm_state[w] = "Iconic" THEN HideAllKeepCurrent(u, {w}) ELSE u
  IN FoldLeft(One, Fresh, order)

\* client_scan_for_windows: the viewable windows, the pointer over some
Scan(order, under) ==
  LET One(s, w) ==
        LET t == ClientInit(s, w, "none", net_state[w])
        IN IF w \in under THEN SetActive(t, w) ELSE t
  IN FoldLeft(One, Fresh, order)

Start ==
  /\ ~running
  /\ running' = TRUE
  /\ LET viewable == {w \in Windows : mapped[w]}
     IN \E order \in SetToSeqs(viewable), under \in SUBSET viewable :
          Become(Scan(order, under))
  /\ save_set' = ToSet(clientq')
  /\ UNCHANGED net_state

----------------------------------------------------------------------------
LNext ==
  \/ Live /\ (App \/ Reading \/ Pointer \/ Command \/ Message) /\ Remembered
  \/ Stop
  \/ Down
  \/ Start

\* main reads the next event whenever there is one: weak fairness of Reading,
\* which is enabled exactly when an event is unread
Unread == running /\ alive /\ evq # <<>>
LSpec == LInit /\ [][LNext]_lvars
               /\ ([]<>~Unread \/ []<><<Live /\ Reading /\ Remembered>>_lvars)

----------------------------------------------------------------------------
(* Properties.                                                             *)

\* A window that asks to be mapped, and whose application does not change its
\* mind, is managed in the end, for cwm reads every event it is sent, unless
\* it stops first.
RequestsAreServed ==
  \A w \in Windows :
    running /\ "MapRequest" \in Pending(w) ~>
      w \in Managed(S) \/ app[w] # "shown" \/ ~running

\* A window whose application unmaps it is let go in the end, although commands
\* keep coming, unless one hides the window before cwm has read of it.
WithdrawalsAreServed ==
  \A w \in Windows :
    /\ running /\ w \in Managed(S) /\ ~Has(S, w, "HIDDEN")
    /\ app[w] = "withdrawn" /\ "UnmapNotify" \in Pending(w)
    ~> \/ w \notin Managed(S) \/ Has(S, w, "HIDDEN")
       \/ app[w] # "withdrawn" \/ ~running

\* A start finds every window of the last life that is still wanted, hidden
\* ones too, in the group it was in; one that was hidden is hidden again, and
\* one that was on display stays there, whatever was unread when cwm stopped
\* and whatever applications did while it was down.  A sticky client may have
\* a WM_STATE that is not its own, for client_hide returns early after
\* client_init has set it.
RestartRestores ==
  [][Start =>
       \A w \in Managed(S) :
         /\ app[w] = "shown"
         /\ wm_state[w] = "Iconic" <=> Has(S, w, "HIDDEN")
         => /\ w \in ToSet(clientq')
            /\ group'[w] = group[w]
            /\ IF Has(S, w, "STICKY")
                 THEN "STICKY" \in flags'[w] /\ mapped'[w]
                 ELSE /\ "HIDDEN" \in flags'[w] <=> Has(S, w, "HIDDEN")
                      /\ mapped'[w] <=> "HIDDEN" \notin flags'[w]]_lvars

\* After a start every window on the display is managed, and the focus is on
\* a window that is there.
StartsClean ==
  [][Start => /\ \A w \in Windows : mapped'[w] => w \in ToSet(clientq')
              /\ curcc' # NoClient => mapped'[curcc']]_lvars

============================================================================
