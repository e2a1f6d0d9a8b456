----------------------------- MODULE Geometry ------------------------------
(***************************************************************************)
(* The geometry of clients on one output: maximising, fullscreen, expand,  *)
(* freeze, borders, moving, resizing, snapping and tiling, and the         *)
(* geometry a sticky client keeps for each group.                          *)
(*                                                                         *)
(* As in Clients, a C function is an operator on what it changes: on one   *)
(* client's record, or on the state of the screen where it changes others. *)
(* A mouse drag reads only button and motion events until the button is    *)
(* released, so it is one step with the pointer positions it has seen.     *)
(***************************************************************************)
EXTENDS SizeHints, SequencesExt, Lists

CONSTANTS
  Windows,
  Handled,       \* the windows the user and the pagers act on
  View,          \* the output
  Gap,           \* gap.top, bottom, left and right of the configuration
  BWidth,        \* the border width of the configuration, the same in all groups
  SnapDist,
  Ignored,       \* windows named by an ignore directive
  Openings,      \* how a handled window may arrive: its geometry, border and
                 \* WM_NORMAL_HINTS, the atoms of its _NET_WM_STATE in order,
                 \* if it is mapped already, and the pointer at that moment
  Starts,        \* where the other windows are, and what applications ask for
  NGroups,
  Amounts,       \* <<dx, dy>> of the key commands for moving and resizing
  Points,        \* where the pointer may go in a drag
  Sessions,      \* what users do: a set of commands, and bounds on how many of
                 \* them give a window a new place or size, and on how many
                 \* share a geometry or force a border
  NoRect         \* no geometry recorded

Groups     == 0 .. NGroups - 1
MAXIMIZED  == {"VMAX", "HMAX"}
GeomFlags  == MAXIMIZED \cup {"FREEZE", "FULLSCREEN", "EXPANDED", "BORDER",
                              "STICKY", "IGNORE"}
NetStates  == MAXIMIZED \cup {"FULLSCREEN", "STICKY"}
Rects      == [x : Int, y : Int, w : Int, h : Int]

ASSUME GeometryAssumption ==
  /\ Handled \subseteq Windows /\ IsFiniteSet(Windows)
  /\ View \in Rects
  /\ Gap \in [top : Int, bottom : Int, left : Int, right : Int]
  /\ BWidth \in Nat /\ SnapDist \in Nat
  /\ Sessions \subseteq [commands : SUBSET STRING, placements : Nat, mixtures : Nat]
  /\ NGroups \in Nat \ {0}
  /\ NoRect \notin Rects

ASSUME InputsAssumption ==
  /\ \A o \in Openings :
       /\ o.geom \in Rects /\ o.border \in Nat /\ o.viewable \in BOOLEAN
       /\ GetSizeHints(NoHints, o.size) \in Hints
       /\ o.atoms \in Seq({"VMAX", "HMAX", "FULLSCREEN"})
       /\ o.pointer \in Int \X Int
  /\ Starts \subseteq Rects
  /\ Amounts \subseteq Int \X Int /\ Points \subseteq Int \X Int

VARIABLES
  cc,         \* the geometry part of each client_ctx, and of its window
  members,    \* gc->clientq of each group
  current,    \* sc->group_current
  session,    \* the session of this behaviour, with what is left of its bounds
  \* what the user has asked for, which the code does not keep
  normal,     \* where a window is to be when it is not maximised
  placed,     \* where it was last put while each group was current
  shared,     \* windows whose savegeom or geometry two states have shared
  forced      \* windows given a border without client_toggle_border

gvars == <<cc, members, current, session, normal, placed, shared, forced>>

Work == Rect(View.x + Gap.left, View.y + Gap.top,
             View.w - (Gap.left + Gap.right), View.h - (Gap.top + Gap.bottom))

----------------------------------------------------------------------------
(* One client.  c.xgeom and c.xborder are the window's on the server,      *)
(* c.atoms its _NET_WM_STATE.                                              *)

\* client_draw_border, without the colour
DrawBorder(c) == [c EXCEPT !.xborder = c.bwidth]

\* Mutant of StateAtoms: the maximised states stay in fullscreen
StateAtomsAll(flags) == flags \cap NetStates

\* The atoms xu_ewmh_set_net_wm_state puts together
StateAtoms(flags) ==
  IF "FULLSCREEN" \in flags THEN flags \cap {"FULLSCREEN", "STICKY"}
                            ELSE flags \cap NetStates

SetNetWmState(c) == [c EXCEPT !.atoms = StateAtoms(c.flags)]

\* Mutant of Reset: the property keeps the old states
ResetFlagsOnly(c) == [c EXCEPT !.flags = @ \ MAXIMIZED]

\* What client_resize does first with reset set
Reset(c) == SetNetWmState([c EXCEPT !.flags = @ \ MAXIMIZED])

\* client_resize with reset clear
Resize(c) ==
  LET g == ApplySizeHints(c.hint, c.geom)
  IN DrawBorder([c EXCEPT !.geom = g, !.xgeom = g])

\* client_resize after client_applysizehints
HintedResize(c) == Resize([c EXCEPT !.geom = ApplySizeHints(c.hint, @)])

\* client_data_extend: once, the geometry is taken from the server
DataExtend(c) ==
  IF c.extended THEN c
  ELSE [c EXCEPT
          !.extended = TRUE,
          !.geom = ApplySizeHints(c.hint,
                     Rect(c.xgeom.x - c.bwidth, c.xgeom.y - c.bwidth,
                          c.xgeom.w + 2 * c.bwidth, c.xgeom.h + 2 * c.bwidth))]

\* client_move, on one output
Move(c) ==
  LET e == DataExtend(c)
  IN [e EXCEPT !.xgeom.x = e.geom.x, !.xgeom.y = e.geom.y]

\* Mutant of RecordGeom: the first record of a group is kept
RecordGeomOnce(c, g) ==
  IF "STICKY" \in c.flags /\ c.records[g] = NoRect
    THEN [c EXCEPT !.records[g] = c.geom] ELSE c

\* client_record_geom while g is current
RecordGeom(c, g) ==
  IF "STICKY" \in c.flags THEN [c EXCEPT !.records[g] = c.geom] ELSE c

\* client_restore_geom
RestoreGeom(c, g) ==
  IF "STICKY" \in c.flags /\ c.records[g] # NoRect
    THEN Resize([c EXCEPT !.geom = c.records[g]]) ELSE c

\* client_toggle_freeze
ToggleFreeze(c) ==
  [c EXCEPT !.flags = IF "FREEZE" \in @ THEN @ \ {"FREEZE"}
                                        ELSE @ \cup {"FREEZE"}]

\* client_toggle_border
ToggleBorder(c) ==
  DrawBorder(IF "BORDER" \in c.flags
               THEN [c EXCEPT !.flags = @ \ {"BORDER"}, !.bwidth = 0]
               ELSE [c EXCEPT !.flags = @ \cup {"BORDER"}, !.bwidth = BWidth])

\* Mutant of ToggleFullscreen: the border comes back whatever the flag says
ToggleFullscreenBorder(c) ==
  IF "FREEZE" \in c.flags /\ "FULLSCREEN" \notin c.flags THEN c
  ELSE IF "FULLSCREEN" \in c.flags
    THEN SetNetWmState(Resize([c EXCEPT
           !.bwidth = BWidth, !.geom = c.full,
           !.flags = @ \ {"FULLSCREEN", "FREEZE"}]))
  ELSE SetNetWmState(Resize([c EXCEPT
         !.full = c.geom, !.bwidth = 0, !.geom = View,
         !.flags = @ \cup {"FULLSCREEN", "FREEZE"}]))

\* client_toggle_fullscreen
ToggleFullscreen(c) ==
  IF "FREEZE" \in c.flags /\ "FULLSCREEN" \notin c.flags THEN c
  ELSE IF "FULLSCREEN" \in c.flags
    THEN SetNetWmState(Resize([c EXCEPT
           !.bwidth = IF "BORDER" \in c.flags THEN BWidth ELSE @,
           !.geom   = c.full,
           !.flags  = @ \ {"FULLSCREEN", "FREEZE"}]))
  ELSE SetNetWmState(Resize([c EXCEPT
         !.full   = c.geom,
         !.bwidth = 0,
         !.geom   = View,
         !.flags  = @ \cup {"FULLSCREEN", "FREEZE"}]))

\* Mutant of ToggleMaximize: both axes are saved whatever is maximised
ToggleMaximizeSaveAll(c) ==
  IF "FREEZE" \in c.flags THEN c
  ELSE IF MAXIMIZED \subseteq c.flags
    THEN SetNetWmState(HintedResize([c EXCEPT
           !.geom = c.save, !.flags = @ \ MAXIMIZED]))
  ELSE SetNetWmState(HintedResize([c EXCEPT
         !.save = c.geom,
         !.geom = Rect(Work.x, Work.y, Work.w - 2 * c.bwidth,
                                       Work.h - 2 * c.bwidth),
         !.flags = @ \cup MAXIMIZED]))

\* client_toggle_maximize: an axis already maximised keeps what it saved
ToggleMaximize(c) ==
  IF "FREEZE" \in c.flags THEN c
  ELSE IF MAXIMIZED \subseteq c.flags
    THEN SetNetWmState(HintedResize([c EXCEPT
           !.geom  = c.save,
           !.flags = @ \ MAXIMIZED]))
  ELSE LET v == IF "VMAX" \in c.flags THEN c.save ELSE c.geom
           h == IF "HMAX" \in c.flags THEN c.save ELSE c.geom
       IN SetNetWmState(HintedResize([c EXCEPT
            !.save  = Rect(h.x, v.y, h.w, v.h),
            !.geom  = Rect(Work.x, Work.y, Work.w - 2 * c.bwidth,
                                           Work.h - 2 * c.bwidth),
            !.flags = @ \cup MAXIMIZED]))

\* client_toggle_vmaximize
ToggleVmaximize(c) ==
  IF "FREEZE" \in c.flags THEN c
  ELSE IF "VMAX" \in c.flags
    THEN SetNetWmState(Resize([c EXCEPT
           !.geom.y = c.save.y, !.geom.h = c.save.h,
           !.flags  = @ \ {"VMAX"}]))
  ELSE SetNetWmState(Resize([c EXCEPT
         !.save.y = c.geom.y, !.save.h = c.geom.h,
         !.geom.y = Work.y,   !.geom.h = Work.h - 2 * c.bwidth,
         !.flags  = @ \cup {"VMAX"}]))

\* client_toggle_hmaximize
ToggleHmaximize(c) ==
  IF "FREEZE" \in c.flags THEN c
  ELSE IF "HMAX" \in c.flags
    THEN SetNetWmState(Resize([c EXCEPT
           !.geom.x = c.save.x, !.geom.w = c.save.w,
           !.flags  = @ \ {"HMAX"}]))
  ELSE SetNetWmState(Resize([c EXCEPT
         !.save.x = c.geom.x, !.save.w = c.geom.w,
         !.geom.x = Work.x,   !.geom.w = Work.w - 2 * c.bwidth,
         !.flags  = @ \cup {"HMAX"}]))

\* xu_ewmh_restore_net_wm_state: the toggles of the atoms of a new window, in
\* the order of its property
Restored(c, a) == CASE a = "VMAX" -> ToggleVmaximize(c)
                    [] a = "HMAX" -> ToggleHmaximize(c)
                    [] a = "FULLSCREEN" -> ToggleFullscreen(c)
RestoreNetWmState(c, atoms) == FoldLeft(Restored, c, atoms)

\* The toggles xu_ewmh_handle_net_wm_state_msg calls for the atoms it is
\* given, in the order of its table
NetWmState(c, action, atoms) ==
  LET Due(d, a) == /\ a \in atoms
                   /\ \/ action = "add" /\ a \notin d.flags
                      \/ action = "remove" /\ a \in d.flags
                      \/ action = "toggle"
      v == IF Due(c, "VMAX") THEN ToggleVmaximize(c) ELSE c
      h == IF Due(v, "HMAX") THEN ToggleHmaximize(v) ELSE v
  IN IF Due(h, "FULLSCREEN") THEN ToggleFullscreen(h) ELSE h

\* xev_handle_configurerequest: the new values of the fields in the mask, and
\* of the border if b is not -1
Configure(c, mask, g, b) ==
  LET Masked(new, old) == [f \in DOMAIN old |-> IF f \in mask THEN new[f]
                                                              ELSE old[f]]
      n  == Masked(g, c.geom)
      bw == IF b = -1 THEN c.bwidth ELSE b
      r  == [n EXCEPT !.x = IF @ = 0 /\ n.w >= View.w THEN @ - bw ELSE @,
                      !.y = IF @ = 0 /\ n.h >= View.h THEN @ - bw ELSE @]
  IN [c EXCEPT !.geom    = r,
               !.xgeom   = Masked(r, @),
               !.bwidth  = bw,
               !.xborder = IF b = -1 THEN @ ELSE b]

----------------------------------------------------------------------------
(* Key and mouse commands on one client.                                   *)

\* How far a window of this size may be moved along an axis
Clamp(v, size, view) ==
  LET low == IF v + size < 0 THEN -size ELSE v
  IN IF low > view - 1 THEN view - 1 ELSE low

\* kbfunc_client_moveresize, CWM_MOVE
KeyMove(c, d) ==
  LET g == [c.geom EXCEPT !.x = Clamp(@ + d[1], c.geom.w, View.w),
                          !.y = Clamp(@ + d[2], c.geom.h, View.h)]
  IN IF "FREEZE" \in c.flags THEN c
     ELSE Move([c EXCEPT !.geom = Snapped(g, c.bwidth, Work, SnapDist)])

\* kbfunc_client_moveresize, CWM_RESIZE
KeyResize(c, d) ==
  IF "FREEZE" \in c.flags THEN c
  ELSE Resize(Reset([c EXCEPT !.geom.w = Larger(@ + d[1], 1),
                              !.geom.h = Larger(@ + d[2], 1)]))

\* One MotionNotify of mousefunc_client_move, p being where the corner of the
\* window is to go
DragTo(c, p) ==
  Move([c EXCEPT
    !.geom = Snapped([@ EXCEPT !.x = p[1] - c.bwidth, !.y = p[2] - c.bwidth],
                     c.bwidth, Work, SnapDist)])

\* mousefunc_client_move; the last two motions decide
MouseMove(c, path) ==
  IF "FREEZE" \in c.flags THEN c ELSE Move(FoldLeft(DragTo, c, path))

\* One MotionNotify of mousefunc_client_resize that began at the corner o
SweepTo(c, o, p) ==
  Resize(Reset([c EXCEPT
    !.geom = SweepCalc(c.hint, @, c.bwidth, o[1], o[2], p[1], p[2])]))

\* mousefunc_client_resize; each motion starts from the same corner
MouseResize(c, path) ==
  LET o == <<c.geom.x, c.geom.y>>
  IN IF "FREEZE" \in c.flags THEN c
     ELSE IF path = <<>> THEN Resize(Reset(c))
     ELSE Resize(Reset(SweepTo(c, o, Last(path))))

----------------------------------------------------------------------------
(* Commands that look at the other windows of the group, or change them.   *)

Others(w) == Keep(members[cc[w].group], Windows \ {w})
Tiled(w)  == Keep(Others(w), {v \in Windows : "IGNORE" \notin cc[v].flags})
OtherRects(w) == [i \in DOMAIN Others(w) |-> cc[Others(w)[i]].geom]

\* The OVERLAP macro on the intervals a .. a + b and c .. c + d
Overlap(a, b, c, d) ==
  (a = c /\ b = d) \/ Smaller(a + b, c + d) - Larger(a, c) > 0

\* client_expand_horiz
ExpandHoriz(c, g, rects) ==
  LET Narrow(e, r) ==
        LET x   == r.x + 2 * c.bwidth
            end == r.x + r.w
        IN IF r.y + r.h <= g.y \/ r.y >= g.y + g.h THEN e
           ELSE IF end <= g.x /\ end >= e[1]
             THEN <<end + 2 * c.bwidth, e[2]>>
           ELSE IF g.x + g.w <= x /\ e[2] >= x
             THEN <<e[1], x - 4 * c.bwidth>>
           ELSE e
      e == FoldLeft(Narrow, <<Work.x, Work.x + Work.w - 2 * c.bwidth>>, rects)
  IN [g EXCEPT !.x = e[1], !.w = e[2] - e[1]]

\* client_expand_vert
ExpandVert(c, g, rects) ==
  LET Narrow(e, r) ==
        LET y   == r.y + 2 * c.bwidth
            end == r.y + r.h
        IN IF r.x + r.w <= g.x \/ r.x >= g.x + g.w THEN e
           ELSE IF end <= g.y /\ end >= e[1] THEN <<end, e[2]>>
           ELSE IF g.y + g.h <= y /\ e[2] >= y THEN <<e[1], y>>
           ELSE e
      e == FoldLeft(Narrow, <<Work.y, Work.y + Work.h - 2 * c.bwidth>>, rects)
  IN [g EXCEPT !.y = e[1], !.h = e[2] - e[1]]

\* client_expand
Expand(c, rects) ==
  IF "FREEZE" \in c.flags THEN c
  ELSE IF "EXPANDED" \in c.flags
    THEN HintedResize([c EXCEPT !.flags = @ \ {"EXPANDED"},
                                !.geom = c.save, !.bwidth = BWidth])
  ELSE HintedResize([c EXCEPT
         !.save  = c.geom,
         !.geom  = ExpandVert(c, ExpandHoriz(c, c.geom, rects), rects),
         !.flags = @ \cup {"EXPANDED"}])

\* Where client_snap puts an edge lo that moves down, or up, to the nearest of
\* edge and the ends of the intervals <<start, length>> in spans
SnapLow(lo, size, edge, spans) ==
  LET at == lo - 1
      Ends(p) == {q \in {p[1] + p[2], p[1]} : q <= at}
                   \cup {q - size : q \in {r \in {p[1] + p[2], p[1]} :
                                              r <= at + size}}
  IN Max({edge} \cup UNION {Ends(p) : p \in spans})

SnapHigh(lo, size, edge, spans) ==
  LET at == lo + 1
      Ends(p) == {q \in {p[1] + p[2], p[1]} : q >= at + size}
                   \cup {q + size : q \in {r \in {p[1] + p[2], p[1]} :
                                              r >= at}}
  IN Min({edge} \cup UNION {Ends(p) : p \in spans}) - size

\* client_snap.  Upwards, the others' geometry is not taken from the server
\* first
Snap(w, dir) ==
  LET others == ToSet(Others(w))
      ext == [v \in Windows |->
                IF v = w \/ (dir # "up" /\ v \in others) THEN DataExtend(cc[v])
                ELSE cc[v]]
      g == ext[w].geom
      beside == {v \in others :
                   IF dir \in {"up", "down"}
                     THEN Overlap(g.x - 1, g.w + 2, ext[v].geom.x, ext[v].geom.w)
                     ELSE Overlap(g.y - 1, g.h + 2, ext[v].geom.y, ext[v].geom.h)}
      rows == {<<ext[v].geom.y, ext[v].geom.h>> : v \in beside}
      cols == {<<ext[v].geom.x, ext[v].geom.w>> : v \in beside}
      to == CASE dir = "up"    -> [g EXCEPT !.y = SnapLow(@, g.h, Work.y, rows)]
              [] dir = "down"  -> [g EXCEPT !.y = SnapHigh(@, g.h, Work.y + Work.h, rows)]
              [] dir = "left"  -> [g EXCEPT !.x = SnapLow(@, g.w, Work.x, cols)]
              [] dir = "right" -> [g EXCEPT !.x = SnapHigh(@, g.w, Work.x + Work.w, cols)]
  IN [ext EXCEPT ![w] = RecordGeom(Move([@ EXCEPT !.geom = to]), current)]

\* A rectangle with its axes exchanged: client_vtile is client_htile so turned
Turn(g) == Rect(g.y, g.x, g.h, g.w)

\* Mutant of Tile: the last window takes the share of the others
TileNoRemainder(w, horizontal) ==
  LET Face(g) == IF horizontal THEN g ELSE Turn(g)
      area == Face(Work)
      n    == Len(Tiled(w))
      c    == cc[w]
      d    == Resize(Reset([c EXCEPT
                !.geom = Face([Face(@) EXCEPT !.x = area.x, !.y = area.y,
                                  !.w = area.w - 2 * c.bwidth])]))
      mh   == Face(d.geom).h + 2 * d.bwidth
      share == area.w \div n
      Put(i) == Rect(area.x + i * share, area.y + mh,
                     share - 2 * BWidth, area.h - mh - 2 * BWidth)
  IN IF \/ n = 0
        \/ (IF horizontal THEN "VMAX" ELSE "HMAX") \in c.flags
        \/ Face(c.geom).h + 2 * c.bwidth >= area.h
       THEN cc
     ELSE [v \in Windows |->
             IF v = w THEN d
             ELSE IF v \notin ToSet(Tiled(w)) THEN cc[v]
             ELSE Resize(Reset([cc[v] EXCEPT
                    !.bwidth = BWidth,
                    !.geom = Face(Put(SelectInSeq(Tiled(w),
                                        LAMBDA u : u = v)))]))]

\* client_htile or client_vtile
Tile(w, horizontal) ==
  LET Face(g) == IF horizontal THEN g ELSE Turn(g)
      area == Face(Work)
      rest == Tiled(w)
      n    == Len(rest)
      c    == cc[w]
      d    == Resize(Reset([c EXCEPT
                !.geom = Face([Face(@) EXCEPT !.x = area.x, !.y = area.y,
                                  !.w = area.w - 2 * c.bwidth])]))
      mh   == Face(d.geom).h + 2 * d.bwidth
      share == area.w \div n
      Put(i) == LET x == area.x + (i - 1) * share
                IN Rect(x, area.y + mh,
                        (IF i = n THEN area.x + area.w - x ELSE share)
                          - 2 * BWidth,
                        area.h - mh - 2 * BWidth)
  IN IF \/ n = 0
        \/ (IF horizontal THEN "VMAX" ELSE "HMAX") \in c.flags
        \/ Face(c.geom).h + 2 * c.bwidth >= area.h
       THEN cc
     ELSE [v \in Windows |->
             IF v = w THEN d
             ELSE IF v \notin ToSet(rest) THEN cc[v]
             ELSE Resize(Reset([cc[v] EXCEPT
                    !.bwidth = BWidth,
                    !.geom = Face(Put(SelectInSeq(rest, LAMBDA u : u = v)))]))]

----------------------------------------------------------------------------
(* The state.  A command leaves a new cc; a placement is also remembered   *)
(* in normal and placed.                                                   *)

\* Where client_init puts a window: a mapped one stays
Placed(o) ==
  IF o.viewable THEN o.geom
  ELSE IF "Position" \in o.size.flags THEN PlaceByHints(o.geom, o.border, View)
  ELSE PlaceByPointer(o.geom, o.border, Work, o.pointer[1], o.pointer[2])

\* client_init: the window is moved to its place and not resized, the hints do
\* not change its size, and the border of its own and the one the Motif hints
\* ask for are overwritten
Opened(w, o) ==
  LET g == Placed(o)
      c == [geom |-> g, save |-> Rect(0, 0, 0, 0), full |-> Rect(0, 0, 0, 0),
            hint |-> GetSizeHints(NoHints, o.size), group |-> 0,
            bwidth |-> IF w \in Ignored THEN 0 ELSE BWidth,
            flags |-> {"BORDER"} \cup (IF w \in Ignored THEN {"IGNORE"} ELSE {}),
            records |-> [h \in Groups |-> NoRect], extended |-> FALSE,
            atoms |-> {}, xborder |-> 0,
            xgeom |-> [g EXCEPT !.w = o.geom.w, !.h = o.geom.h]]
      d == RestoreNetWmState(DrawBorder(c), o.atoms)
  IN [d EXCEPT !.xgeom.x = d.geom.x, !.xgeom.y = d.geom.y]

\* A window that is there already, without hints or states
Plain(g) == [geom |-> g, border |-> 0, viewable |-> TRUE, atoms |-> <<>>,
             size |-> [flags |-> {}], pointer |-> <<0, 0>>]

GInit ==
  /\ \E open \in [Windows -> Openings \cup {Plain(g) : g \in Starts}] :
       /\ \A w \in Windows : open[w] \in Openings <=> w \in Handled
       /\ cc = [w \in Windows |-> Opened(w, open[w])]
       /\ normal = [w \in Windows |-> Placed(open[w])]
  /\ \E q \in SetToSeqs(Windows) :
       members = [g \in Groups |-> IF g = 0 THEN q ELSE <<>>]
  /\ current = 0
  /\ session \in Sessions
  /\ placed = [w \in Windows |-> [g \in Groups |-> NoRect]]
  /\ shared = {} /\ forced = {}

Given(command) == command \in session.commands
OnDisplay(w) == w \in Handled /\ cc[w].group = current

\* A command shares the geometry of some windows, and forces a border on some.
\* Bound: the session says how many such commands there are
Mixes(shares, forces) ==
  /\ shares \cup forces # {} => session.mixtures > 0
  /\ shared' = shared \cup shares
  /\ forced' = forced \cup forces
MixturesLeft(shares, forces) ==
  IF shares \cup forces = {} THEN session.mixtures ELSE session.mixtures - 1

\* A command that gives no window a new place
Toggle(w, c, shares, forces) ==
  /\ OnDisplay(w) /\ Mixes(shares, forces)
  /\ session' = [session EXCEPT !.mixtures = MixturesLeft(shares, forces)]
  /\ cc' = [cc EXCEPT ![w] = c]
  /\ UNCHANGED <<members, current, normal, placed>>

\* Where c leaves a window that is not maximised on an axis
NormalAfter(c, old) ==
  IF "FULLSCREEN" \in c.flags THEN old
  ELSE LET h == IF "HMAX" \in c.flags THEN old ELSE c.geom
           v == IF "VMAX" \in c.flags THEN old ELSE c.geom
       IN Rect(h.x, v.y, h.w, v.h)

\* A command that places windows: w by the user's hand if byhand
Place(w, after, byhand, shares, forces) ==
  /\ OnDisplay(w) /\ Mixes(shares, forces) /\ session.placements > 0
  /\ session' = [session EXCEPT !.placements = @ - 1,
                                !.mixtures = MixturesLeft(shares, forces)]
  /\ cc' = after
  /\ normal' = [v \in Windows |-> NormalAfter(after[v], normal[v])]
  /\ placed' = IF byhand /\ "STICKY" \in cc[w].flags
                 THEN [placed EXCEPT ![w][current] = after[w].geom] ELSE placed
  /\ UNCHANGED <<members, current>>

Fullscreen(w) == "FULLSCREEN" \in cc[w].flags
Frozen(w)     == "FREEZE" \in cc[w].flags
Full   == {w \in Windows : Fullscreen(w)}
Thawed == {w \in Windows : ~Frozen(w)}
PlaceOne(w, c, shares) ==
  Place(w, [cc EXCEPT ![w] = RecordGeom(c, current)], ~Frozen(w), shares, {})

\* A toggle or a resize that is given in fullscreen, possible once client_freeze
\* has undone what fullscreen froze, works on the geometry of fullscreen
Maximize(w, c) == Toggle(w, c, {w} \cap Full \cap Thawed, {})

KbVmaximize(w)  == Given("maximize") /\ Maximize(w, ToggleVmaximize(cc[w]))
KbHmaximize(w)  == Given("maximize") /\ Maximize(w, ToggleHmaximize(cc[w]))
KbMaximize(w)   == Given("maximize") /\ Maximize(w, ToggleMaximize(cc[w]))
KbFullscreen(w) == Given("fullscreen") /\ Toggle(w, ToggleFullscreen(cc[w]), {}, {})
KbBorder(w)     == Given("border") /\ Toggle(w, ToggleBorder(cc[w]), {}, {})
KbFreeze(w)     == Given("freeze") /\ Toggle(w, ToggleFreeze(cc[w]), {}, {})

\* What is expanded is saved where what is maximised is, and the border comes
\* back whatever the flag says
KbExpand(w) ==
  Given("expand")
    /\ Toggle(w, Expand(cc[w], OtherRects(w)), {w} \cap Thawed,
              {v \in {w} \cap Thawed : "EXPANDED" \in cc[v].flags
                                        /\ "BORDER" \notin cc[v].flags})

MsgState(w, action, atoms) ==
  Given("message") /\ Maximize(w, NetWmState(cc[w], action, atoms))

KbMove(w, d)    == Given("move") /\ ~Frozen(w) /\ PlaceOne(w, KeyMove(cc[w], d), {})
KbResize(w, d)  ==
  Given("resize") /\ ~Frozen(w) /\ PlaceOne(w, KeyResize(cc[w], d), {w} \cap Full)
Drag(w, path)   == Given("drag") /\ ~Frozen(w) /\ PlaceOne(w, MouseMove(cc[w], path), {})
Sweep(w, path)  ==
  Given("sweep") /\ ~Frozen(w) /\ PlaceOne(w, MouseResize(cc[w], path), {w} \cap Full)
KbSnap(w, dir)  == Given("snap") /\ Place(w, Snap(w, dir), TRUE, {}, {})

\* Tiling gives the windows beside w a border, and does not ask if a window is
\* in fullscreen
KbTile(w, hor)  ==
  Given("tile")
    /\ Place(w, Tile(w, hor), FALSE, ({w} \cup ToSet(Tiled(w))) \cap Full,
             {v \in ToSet(Tiled(w)) : "BORDER" \notin cc[v].flags})

AppConfigure(w, mask, g, b) ==
  /\ Given("configure")
  /\ Place(w, [cc EXCEPT ![w] = Configure(@, mask, g, b)], FALSE, {},
           IF b = -1 THEN {} ELSE {w})

\* client_toggle_sticky: a client that is sticky no more joins the current
\* group, and what was recorded of it is dropped
KbSticky(w) ==
  LET c == cc[w]
  IN /\ Given("sticky") /\ OnDisplay(w)
     /\ IF "STICKY" \notin c.flags
          THEN /\ cc' = [cc EXCEPT ![w] =
                           SetNetWmState([c EXCEPT !.flags = @ \cup {"STICKY"}])]
               /\ UNCHANGED <<members, placed>>
          ELSE /\ cc' = [cc EXCEPT ![w] =
                           SetNetWmState(DrawBorder([c EXCEPT
                             !.flags = @ \ {"STICKY"}, !.group = current,
                             !.records = [g \in Groups |-> NoRect]]))]
               /\ members' = [members EXCEPT
                                ![current] = Append(Keep(@, Windows \ {w}), w)]
               /\ placed' = [placed EXCEPT ![w] = [g \in Groups |-> NoRect]]
     /\ UNCHANGED <<current, session, normal, shared, forced>>

\* Mutant of GroupOnly: the geometry is restored before the group is joined
GroupOnlyOldGroup(g) ==
  LET sticky == {w \in Windows : "STICKY" \in cc[w].flags}
  IN /\ current' = g
     /\ members' = [h \in Groups |->
                      IF h = g THEN Keep(members[g], Windows \ sticky)
                                      \o SetToSeq(sticky)
                      ELSE Keep(members[h], Windows \ sticky)]
     /\ cc' = [w \in Windows |->
                 IF w \in sticky
                   THEN RestoreGeom([cc[w] EXCEPT !.group = g], cc[w].group)
                   ELSE cc[w]]

\* group_only: group_show of the group that is now current
GroupOnly(g) ==
  LET sticky == {w \in Windows : "STICKY" \in cc[w].flags}
  IN /\ current' = g
     /\ members' = [h \in Groups |->
                      IF h = g THEN Keep(members[g], Windows \ sticky)
                                      \o SetToSeq(sticky)
                      ELSE Keep(members[h], Windows \ sticky)]
     /\ cc' = [w \in Windows |->
                 IF w \in sticky
                   THEN RestoreGeom(DrawBorder([cc[w] EXCEPT !.group = g]), g)
                   ELSE cc[w]]

\* A sticky client that is put back where it was recorded is placed there
Switch(g) ==
  /\ Given("group") /\ g # current
  /\ GroupOnly(g)
  /\ normal' = [w \in Windows |->
                  IF "STICKY" \in cc[w].flags /\ cc[w].records[g] # NoRect
                    THEN NormalAfter(cc'[w], normal[w]) ELSE normal[w]]
  /\ UNCHANGED <<session, placed, shared, forced>>

Paths == {<<>>} \cup {<<p>> : p \in Points} \cup {<<p, q>> : p, q \in Points}
Masks == {{"x", "w"}, {"y", "h"}}

GNext ==
  \/ \E w \in Handled :
       \/ KbVmaximize(w) \/ KbHmaximize(w) \/ KbMaximize(w) \/ KbFullscreen(w)
       \/ KbBorder(w) \/ KbFreeze(w) \/ KbExpand(w) \/ KbSticky(w)
       \/ \E action \in {"add", "remove", "toggle"},
            atoms \in {MAXIMIZED, {"VMAX"}, {"HMAX", "FULLSCREEN"}} :
              MsgState(w, action, atoms)
       \/ \E d \in Amounts : KbMove(w, d) \/ KbResize(w, d)
       \/ \E path \in Paths : Drag(w, path) \/ Sweep(w, path)
       \/ \E dir \in {"up", "down", "left", "right"} : KbSnap(w, dir)
       \/ \E horizontal \in BOOLEAN : KbTile(w, horizontal)
       \/ \E mask \in Masks, g \in Starts, b \in {-1, 0} :
              AppConfigure(w, mask, g, b)
  \/ \E g \in Groups : Switch(g)

GSpec == GInit /\ [][GNext]_gvars

----------------------------------------------------------------------------
(* Properties.                                                             *)

\* What cwm writes in _NET_WM_STATE is what the flags say, after any sequence
\* of toggles, resizes that clear the maximised flags and messages: FULLSCREEN
\* hides the maximised states from a pager and uncovers them again
\* (xu_ewmh_set_net_wm_state and its callers).
PagerSeesState == \A w \in Windows : cc[w].atoms = StateAtoms(cc[w].flags)

\* Hints whose limits agree with each other: nothing is left out of the grid by
\* the bounds, and no aspect is asked for
RegularSize(base, min, max, inc) ==
  /\ 0 <= base /\ base <= min
  /\ max = 0 \/ (min <= max /\ (max - base) % inc = 0)
RegularHints(hint) ==
  /\ hint.mina[1] = 0 \/ hint.maxa[1] = 0
  /\ RegularSize(hint.basew, hint.minw, hint.maxw, hint.incw)
  /\ RegularSize(hint.baseh, hint.minh, hint.maxh, hint.inch)

\* The hints of a window are regular, and agree with the size it arrives with
\* and with the sizes that are asked for later.  Where they do not, maximising
\* and back changes a size that client_init and xev_handle_configurerequest
\* have left as it was.
SizesAgree ==
  \A o \in Openings \cup {Plain(g) : g \in Starts} :
    LET hint == GetSizeHints(NoHints, o.size)
    IN /\ RegularHints(hint)
       /\ \A g \in Starts \cup {Placed(o)} : ApplySizeHints(hint, g) = g

\* Whatever was maximised on one axis, on the other or on both, in any order,
\* with fullscreen, freezing, moves and switches of the group in between, a
\* window that is maximised on an axis no more is where it was last put on that
\* axis.  It is not so of windows of which savegeom or the geometry of fullscreen
\* was used for something else: those expanded, and those maximised, resized or
\* tiled in fullscreen (shared).
NormalIsKept ==
  \A w \in Windows \ shared :
    LET g == IF Fullscreen(w) THEN cc[w].full ELSE cc[w].geom
    IN /\ "HMAX" \notin cc[w].flags => g.x = normal[w].x /\ g.w = normal[w].w
       /\ "VMAX" \notin cc[w].flags => g.y = normal[w].y /\ g.h = normal[w].h

\* The border comes back after fullscreen, toggled meanwhile or not: outside
\* fullscreen it is there if and only if CLIENT_BORDER is set, and the window
\* on the server has it.  It is not so of an ignored window, which has the flag
\* and no border, nor of one that was given its border by its application, by
\* tiling or by client_expand (forced).
BorderIsAsked ==
  \A w \in Windows \ (Ignored \cup forced) :
    /\ cc[w].xborder = cc[w].bwidth
    /\ ~Fullscreen(w) =>
         cc[w].bwidth = IF "BORDER" \in cc[w].flags THEN BWidth ELSE 0

\* "clients which are marked as sticky ... retain a per-group geometry"
\* (cwmrc.5): on coming back to a group, a sticky client is where it was last
\* put by hand in that group, whatever was done to it in others.
StickyReturns ==
  [][current' # current =>
       \A w \in Windows :
         placed[w][current'] # NoRect =>
           cc'[w].geom = ApplySizeHints(cc[w].hint, placed[w][current'])]_gvars

\* The space a window takes, with its border
Outer(c) == [c.geom EXCEPT !.w = @ + 2 * c.bwidth, !.h = @ + 2 * c.bwidth]
Apart(g, h) == \/ g.x + g.w <= h.x \/ h.x + h.w <= g.x
               \/ g.y + g.h <= h.y \/ h.y + h.h <= g.y
Inside(g, h) == /\ g.x >= h.x /\ g.x + g.w <= h.x + h.w
                /\ g.y >= h.y /\ g.y + g.h <= h.y + h.h

\* client_htile and client_vtile share the output out: no two windows of the
\* group overlap, none leaves the work area, and together they fill it, when
\* size hints do not interfere and every share has room for a border.
Area(g) == g.w * g.h
TilesShare ==
  [][\A w \in Handled, horizontal \in BOOLEAN :
       LET all == ToSet(members[cc[w].group])
       IN /\ KbTile(w, horizontal) /\ cc' # cc
          /\ \A v \in all : "IGNORE" \notin cc[v].flags /\ cc[v].hint = NoHints
          /\ \A v \in all : cc'[v].geom.w > 1 /\ cc'[v].geom.h > 1
          => /\ \A v \in all : Inside(Outer(cc'[v]), Work)
             /\ \A u, v \in all : u # v => Apart(Outer(cc'[u]), Outer(cc'[v]))
             /\ FoldSet(LAMBDA v, sum : sum + Area(Outer(cc'[v])), 0, all)
                  = Area(Work)]_gvars

=============================================================================
