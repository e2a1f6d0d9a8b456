-------------------------- MODULE Geometry_proofs ---------------------------
(***************************************************************************)
(* What holds of the geometry of clients for every output, configuration,  *)
(* set of windows and sequence of commands.                                *)
(*                                                                         *)
(* A command is a function on the record of a client, so most lemmas say   *)
(* what such a function preserves: the types, what the property on the     *)
(* window says (Seen), the border (Bordered) and, in savegeom, fullgeom or *)
(* the geometry, the place the window is to come back to (Kept).           *)
(***************************************************************************)
EXTENDS Geometry, Lists_proofs, FiniteSetTheorems, TLAPS

Records == [Groups -> Rects \cup {NoRect}]
Client == [geom : Rects, save : Rects, full : Rects, xgeom : Rects,
           hint : Hints, group : Groups, bwidth : Int, xborder : Int,
           flags : SUBSET GeomFlags, atoms : SUBSET NetStates,
           records : Records, extended : BOOLEAN]

----------------------------------------------------------------------------
(* Sizes and positions.                                                    *)

\* The quotient of C is an integer.
LEMMA CDivType ==
  ASSUME NEW a \in Int, NEW b \in Nat \ {0}
  PROVE  CDiv(a, b) \in Int
<1>1. Abs(a) \in Nat /\ Abs(b) = b
  BY DEF Abs
<1>2. Abs(a) \div Abs(b) \in Int
  BY <1>1
<1> QED
  BY <1>2 DEF CDiv

\* The remainder of C is that of TLA+ for a dividend that is not negative.
LEMMA CModType ==
  ASSUME NEW a \in Int, NEW b \in Nat \ {0}
  PROVE  /\ CMod(a, b) \in Int
         /\ a >= 0 => CMod(a, b) = a % b
         /\ a % b \in Nat /\ a % b < b
BY DEF CMod

\* One dimension, its hints applied, is an integer.
LEMMA FitType ==
  ASSUME NEW v \in Int, NEW base \in Int, NEW min \in Int, NEW max \in Int,
         NEW inc \in Nat \ {0}
  PROVE  Fit(v, base, min, max, inc) \in Int
<1>1. v - CMod(v - base, inc) \in Int
  BY CModType
<1> QED
  BY <1>1 DEF Fit, Larger, Smaller

\* The aspect ratio leaves integers.
LEMMA AspectType ==
  ASSUME NEW hint \in Hints, NEW w \in Int, NEW h \in Int
  PROVE  /\ Aspect(hint, w, h)[1] \in Int
         /\ Aspect(hint, w, h)[2] \in Int
<1>1. /\ hint.mina[1] \in Int /\ hint.mina[2] \in Nat \ {0}
      /\ hint.maxa[1] \in Int /\ hint.maxa[2] \in Nat \ {0}
  BY DEF Hints
<1>2. CDiv(h * hint.maxa[1], hint.maxa[2]) \in Int
  <2>1. h * hint.maxa[1] \in Int
    BY <1>1
  <2> QED BY <1>1, <2>1, CDivType
<1>3. CDiv(w * hint.mina[1], hint.mina[2]) \in Int
  <2>1. w * hint.mina[1] \in Int
    BY <1>1
  <2> QED BY <1>1, <2>1, CDivType
<1> QED
  BY <1>2, <1>3 DEF Aspect

\* Hints change a size only
LEMMA HintsType ==
  ASSUME NEW hint \in Hints, NEW g \in Rects
  PROVE  /\ ApplySizeHints(hint, g) \in Rects
         /\ ApplySizeHints(hint, g).x = g.x
         /\ ApplySizeHints(hint, g).y = g.y
<1> DEFINE bw == IF hint.basew = hint.minw /\ hint.baseh = hint.minh
                   THEN 0 ELSE hint.basew
           bh == IF hint.basew = hint.minw /\ hint.baseh = hint.minh
                   THEN 0 ELSE hint.baseh
           a  == Aspect(hint, g.w - bw, g.h - bh)
           fw == Fit(a[1] + bw, hint.basew, hint.minw, hint.maxw, hint.incw)
           fh == Fit(a[2] + bh, hint.baseh, hint.minh, hint.maxh, hint.inch)
<1>1. bw \in Int /\ bh \in Int /\ g.w \in Int /\ g.h \in Int
  BY DEF Hints, Rects
<1>2. a[1] \in Int /\ a[2] \in Int
  <2> HIDE DEF bw, bh
  <2> QED BY <1>1, AspectType
<1>3. fw \in Int /\ fh \in Int
  <2>1. /\ hint.basew \in Int /\ hint.minw \in Int /\ hint.maxw \in Int
        /\ hint.baseh \in Int /\ hint.minh \in Int /\ hint.maxh \in Int
        /\ hint.incw \in Nat \ {0} /\ hint.inch \in Nat \ {0}
    BY DEF Hints
  <2> HIDE DEF bw, bh, a
  <2>2. a[1] + bw \in Int /\ a[2] + bh \in Int
    BY <1>1, <1>2
  <2> QED BY <2>1, <2>2, FitType
<1>4. ApplySizeHints(hint, g) = [g EXCEPT !.w = fw, !.h = fh]
  BY DEF ApplySizeHints
<1> HIDE DEF fw, fh
<1> QED
  BY <1>3, <1>4 DEF Rects

\* snapcalc is an integer.
LEMMA SnapcalcType ==
  ASSUME NEW n0 \in Int, NEW n1 \in Int, NEW e0 \in Int, NEW e1 \in Int, NEW d \in Int
  PROVE  Snapcalc(n0, n1, e0, e1, d) \in Int
BY DEF Snapcalc, Abs

\* Rectangles, moved and resized.
LEMMA RectType ==
  ASSUME NEW g \in Rects
  PROVE  /\ g.x \in Int /\ g.y \in Int /\ g.w \in Int /\ g.h \in Int
         /\ \A x, y \in Int : [g EXCEPT !.x = x, !.y = y] \in Rects
         /\ \A w, h \in Int : [g EXCEPT !.w = w, !.h = h] \in Rects
BY DEF Rects

\* Snapping moves a rectangle and leaves its size.
LEMMA SnappedType ==
  ASSUME NEW g \in Rects, NEW b \in Int, NEW region \in Rects, NEW d \in Int
  PROVE  /\ Snapped(g, b, region, d) \in Rects
         /\ Snapped(g, b, region, d).w = g.w
         /\ Snapped(g, b, region, d).h = g.h
<1> DEFINE dx == Snapcalc(g.x, g.x + g.w + 2 * b, region.x, region.x + region.w, d)
           dy == Snapcalc(g.y, g.y + g.h + 2 * b, region.y, region.y + region.h, d)
<1>1. /\ g.x \in Int /\ g.y \in Int /\ g.w \in Int /\ g.h \in Int
      /\ region.x \in Int /\ region.y \in Int /\ region.w \in Int /\ region.h \in Int
  BY RectType
<1>2. dx \in Int /\ dy \in Int
  <2>1. g.x + g.w + 2 * b \in Int /\ region.x + region.w \in Int
    BY <1>1
  <2>2. g.y + g.h + 2 * b \in Int /\ region.y + region.h \in Int
    BY <1>1
  <2> QED BY <1>1, <2>1, <2>2, SnapcalcType
<1>3. Snapped(g, b, region, d) = [g EXCEPT !.x = g.x + dx, !.y = g.y + dy]
  BY DEF Snapped, Rects
<1> HIDE DEF dx, dy
<1>4. g.x + dx \in Int /\ g.y + dy \in Int
  BY <1>1, <1>2
<1> QED
  BY <1>3, <1>4 DEF Rects

\* Sweeping out a size leaves a rectangle.
LEMMA SweepType ==
  ASSUME NEW hint \in Hints, NEW g \in Rects, NEW b \in Int,
         NEW x \in Int, NEW y \in Int, NEW mx \in Int, NEW my \in Int
  PROVE  SweepCalc(hint, g, b, x, y, mx, my) \in Rects
<1> DEFINE r == [g EXCEPT !.w = Abs(x - mx) - b, !.h = Abs(y - my) - b]
<1>1. r \in Rects
  <2>1. Abs(x - mx) - b \in Int /\ Abs(y - my) - b \in Int
    BY DEF Abs
  <2> QED BY <2>1, RectType
<1>2. ApplySizeHints(hint, r) \in Rects
  <2> HIDE DEF r
  <2> QED BY <1>1, HintsType
<1> DEFINE f == ApplySizeHints(hint, r)
           nx == IF x <= mx THEN x ELSE x - f.w
           ny == IF y <= my THEN y ELSE y - f.h
<1>3. SweepCalc(hint, g, b, x, y, mx, my) = [f EXCEPT !.x = nx, !.y = ny]
  BY DEF SweepCalc
<1>4. f.w \in Int /\ f.h \in Int
  BY <1>2, RectType
<1>5. nx \in Int /\ ny \in Int
  <2> HIDE DEF r, f
  <2> QED BY <1>4
<1> HIDE DEF r, f, nx, ny
<1>6. [f EXCEPT !.x = nx, !.y = ny] \in Rects
  BY <1>2, <1>5, RectType DEF f
<1> QED
  BY <1>3, <1>6

\* The border and the view.
LEMMA BWidthType == BWidth \in Nat /\ View \in Rects
BY GeometryAssumption

\* The work area.
LEMMA WorkType == Work \in Rects
BY GeometryAssumption DEF Work, Rect, Rects

----------------------------------------------------------------------------
(* How windows arrive.                                                     *)

Arrivals == Openings \cup {Plain(g) : g \in Starts}
StateNames == {"VMAX", "HMAX", "FULLSCREEN"}

\* What windows come with.
LEMMA ArrivalType ==
  ASSUME NEW o \in Arrivals
  PROVE  /\ o.geom \in Rects /\ o.border \in Nat
         /\ GetSizeHints(NoHints, o.size) \in Hints
         /\ o.atoms \in Seq(StateNames)
         /\ o.pointer \in Int \X Int
<1>1. CASE o \in Openings
  BY <1>1, InputsAssumption DEF StateNames
<1>2. ASSUME NEW g \in Starts, o = Plain(g)
      PROVE  /\ o.geom \in Rects /\ o.border \in Nat
             /\ GetSizeHints(NoHints, o.size) \in Hints
             /\ o.atoms \in Seq(StateNames)
             /\ o.pointer \in Int \X Int
  <2>1. o.geom = g /\ o.border = 0 /\ o.atoms = <<>> /\ o.pointer = <<0, 0>>
    BY <1>2 DEF Plain
  <2>2. GetSizeHints(NoHints, o.size) = NoHints
    <3>1. o.size.flags = {}
      BY <1>2 DEF Plain
    <3> QED BY <3>1 DEF GetSizeHints, NoHints, Larger
  <2>3. NoHints \in Hints
    BY DEF NoHints, Hints
  <2>4. g \in Rects
    BY InputsAssumption
  <2> QED BY <2>1, <2>2, <2>3, <2>4
<1> QED
  BY <1>1, <1>2 DEF Arrivals

\* client_placecalc on one axis.
LEMMA PlaceAxisType ==
  ASSUME NEW m \in Int, NEW size \in Int, NEW b \in Int, NEW e0 \in Int, NEW e1 \in Int
  PROVE  /\ PlaceAxis(m, size, b, e0, e1)[1] \in Int
         /\ PlaceAxis(m, size, b, e0, e1)[2] \in Int
<1>1. CDiv(size, 2) \in Int
  BY CDivType
<1> QED
  BY <1>1 DEF PlaceAxis, Larger, Smaller

\* A window is placed as a rectangle.
LEMMA PlacedType ==
  ASSUME NEW o \in Arrivals
  PROVE  Placed(o) \in Rects
<1> DEFINE g == o.geom
<1>1. g \in Rects /\ o.border \in Int /\ o.pointer[1] \in Int /\ o.pointer[2] \in Int
  BY ArrivalType
<1>2. /\ g.x \in Int /\ g.y \in Int /\ g.w \in Int /\ g.h \in Int
      /\ View.w \in Int /\ View.h \in Int
      /\ Work.x \in Int /\ Work.y \in Int /\ Work.w \in Int /\ Work.h \in Int
  BY <1>1, WorkType, RectType, GeometryAssumption
<1>3. PlaceByHints(g, o.border, View) \in Rects
  <2> DEFINE nx == Smaller(g.x, View.w - g.w - 2 * o.border)
             ny == Smaller(g.y, View.h - g.h - 2 * o.border)
  <2>1. nx \in Int /\ ny \in Int
    BY <1>1, <1>2 DEF Smaller
  <2>2. PlaceByHints(g, o.border, View) = [g EXCEPT !.x = nx, !.y = ny]
    BY DEF PlaceByHints
  <2> HIDE DEF nx, ny, g
  <2>3. [g EXCEPT !.x = nx, !.y = ny] \in Rects
    BY <1>1, <2>1, RectType
  <2> QED BY <2>2, <2>3
<1>4. PlaceByPointer(g, o.border, Work, o.pointer[1], o.pointer[2]) \in Rects
  <2> DEFINE h == PlaceAxis(o.pointer[1], g.w, o.border, Work.x, Work.x + Work.w)
             v == PlaceAxis(o.pointer[2], g.h, o.border, Work.y, Work.y + Work.h)
  <2>1. Work.x + Work.w \in Int /\ Work.y + Work.h \in Int
    BY <1>2
  <2>2. h[1] \in Int /\ h[2] \in Int /\ v[1] \in Int /\ v[2] \in Int
    BY <1>1, <1>2, <2>1, PlaceAxisType
  <2>3. PlaceByPointer(g, o.border, Work, o.pointer[1], o.pointer[2])
          = Rect(h[1], v[1], h[2], v[2])
    BY DEF PlaceByPointer
  <2> HIDE DEF h, v
  <2> QED BY <2>2, <2>3 DEF Rect, Rects
<1> QED
  BY <1>1, <1>3, <1>4 DEF Placed

----------------------------------------------------------------------------
(* What holds of the record of one client.                                 *)

\* The window says what the flags say
Seen(c) == c.atoms = StateAtoms(c.flags)

\* The border is the one that was asked for, and fullscreen hides it
Bordered(c) ==
  /\ c.xborder = c.bwidth
  /\ "FULLSCREEN" \notin c.flags =>
       c.bwidth = IF "BORDER" \in c.flags THEN BWidth ELSE 0
  /\ {"FULLSCREEN", "BORDER"} \cap c.flags = {"FULLSCREEN"} => c.bwidth = 0

\* The hints leave the sizes of n as they are
FitsW(hint, w) == \A g \in Rects : g.w = w => ApplySizeHints(hint, g).w = w
FitsH(hint, h) == \A g \in Rects : g.h = h => ApplySizeHints(hint, g).h = h
Fitting(hint, n) == FitsW(hint, n.w) /\ FitsH(hint, n.h)

\* n is where the window is on the axes that are not maximised, and on the
\* others what it is to come back to
Kept(c, n) ==
  /\ Fitting(c.hint, n)
  /\ LET g == IF "FULLSCREEN" \in c.flags THEN c.full ELSE c.geom
         h == IF "HMAX" \in c.flags THEN c.save ELSE g
         v == IF "VMAX" \in c.flags THEN c.save ELSE g
     IN n.x = h.x /\ n.w = h.w /\ n.y = v.y /\ n.h = v.h
KeepsNormal(c, d) == \A n \in Rects : Kept(c, n) => Kept(d, n)

\* Fullscreen freezes a window, and what is frozen is not maximised
Held(c) == "FULLSCREEN" \in c.flags => "FREEZE" \in c.flags

\* d is c after commands that place it nowhere
Preserved(c, d) ==
  /\ d \in Client
  /\ d.hint = c.hint /\ d.group = c.group /\ d.records = c.records
  /\ {"STICKY", "IGNORE"} \cap d.flags = {"STICKY", "IGNORE"} \cap c.flags
  /\ Seen(c) => Seen(d)
  /\ Bordered(c) => Bordered(d)
  /\ Held(c) => Held(d) /\ KeepsNormal(c, d)

\* Two records that differ at most in the fields of f
Alike(d, c, f) ==
  \A k \in {"geom", "save", "full", "xgeom", "hint", "group", "bwidth", "xborder",
            "flags", "atoms", "records", "extended"} \ f : d[k] = c[k]

\* The changes that preserve the normal geometry compose.
LEMMA PreservedTrans ==
  ASSUME NEW c, NEW d, NEW e, Preserved(c, d), Preserved(d, e)
  PROVE  Preserved(c, e)
BY DEF Preserved, KeepsNormal

\* No change is one of them.
LEMMA PreservedRefl ==
  ASSUME NEW c \in Client
  PROVE  Preserved(c, c)
BY DEF Preserved, KeepsNormal

\* The states a client shows are those of the EWMH.
LEMMA AtomsType ==
  ASSUME NEW f \in SUBSET GeomFlags
  PROVE  StateAtoms(f) \in SUBSET NetStates
BY DEF StateAtoms, GeomFlags, NetStates, MAXIMIZED

\* client_resize applies the hints and leaves everything else.
LEMMA ResizeType ==
  ASSUME NEW c \in Client
  PROVE  /\ Resize(c) \in Client
         /\ Resize(c).geom = ApplySizeHints(c.hint, c.geom)
         /\ Resize(c).xborder = c.bwidth
         /\ Alike(Resize(c), c, {"geom", "xgeom", "xborder"})
<1> DEFINE g == ApplySizeHints(c.hint, c.geom)
<1>1. g \in Rects
  BY HintsType DEF Client
<1>2. Resize(c) = [c EXCEPT !.geom = g, !.xgeom = g, !.xborder = c.bwidth]
  BY DEF Resize, DrawBorder, Client
<1> HIDE DEF g
<1>3. Resize(c) \in Client
  BY <1>1, <1>2 DEF Client
<1>4. Resize(c).geom = g /\ Resize(c).xborder = c.bwidth
  BY <1>2 DEF Client
<1>5. Alike(Resize(c), c, {"geom", "xgeom", "xborder"})
  BY <1>2 DEF Alike, Client
<1> QED
  BY <1>3, <1>4, <1>5 DEF g

\* client_applysizehints before client_resize changes the size at most.
LEMMA HintedType ==
  ASSUME NEW c \in Client
  PROVE  LET e == [c EXCEPT !.geom = ApplySizeHints(c.hint, @)]
         IN /\ e \in Client /\ HintedResize(c) = Resize(e)
            /\ e.geom = ApplySizeHints(c.hint, c.geom) /\ Alike(e, c, {"geom"})
<1>1. ApplySizeHints(c.hint, c.geom) \in Rects
  BY HintsType DEF Client
<1> QED
  BY <1>1 DEF HintedResize, Alike, Client

\* xu_ewmh_set_net_wm_state writes the atoms of the flags.
LEMMA StateType ==
  ASSUME NEW c \in Client
  PROVE  /\ SetNetWmState(c) \in Client
         /\ Seen(SetNetWmState(c))
         /\ Alike(SetNetWmState(c), c, {"atoms"})
<1>1. StateAtoms(c.flags) \in SUBSET NetStates
  BY AtomsType DEF Client
<1>2. SetNetWmState(c) \in Client
  BY <1>1 DEF SetNetWmState, Client
<1>3. Seen(SetNetWmState(c))
  BY DEF Seen, SetNetWmState, Client
<1>4. Alike(SetNetWmState(c), c, {"atoms"})
  BY DEF Alike, SetNetWmState, Client
<1> QED
  BY <1>2, <1>3, <1>4

\* What the toggles end with
LEMMA ShapeType ==
  ASSUME NEW c \in Client
  PROVE  LET d == SetNetWmState(Resize(c))
         IN /\ d \in Client /\ Seen(d)
            /\ d.geom = ApplySizeHints(c.hint, c.geom)
            /\ d.xborder = c.bwidth
            /\ Alike(d, c, {"geom", "xgeom", "xborder", "atoms"})
<1> DEFINE r == Resize(c)
           d == SetNetWmState(r)
<1>1. /\ r \in Client
      /\ r.geom = ApplySizeHints(c.hint, c.geom) /\ r.xborder = c.bwidth
      /\ Alike(r, c, {"geom", "xgeom", "xborder"})
  BY ResizeType
<1> HIDE DEF r
<1>2. d \in Client /\ Seen(d) /\ Alike(d, r, {"atoms"})
  BY <1>1, StateType
<1> HIDE DEF d
<1>3. d.geom = r.geom /\ d.xborder = r.xborder
  BY <1>2 DEF Alike
<1>4. Alike(d, c, {"geom", "xgeom", "xborder", "atoms"})
  BY <1>1, <1>2 DEF Alike
<1> QED
  BY <1>1, <1>2, <1>3, <1>4 DEF d, r

\* ... and what client_toggle_maximize ends with.
LEMMA HintedShapeType ==
  ASSUME NEW c \in Client
  PROVE  LET d == SetNetWmState(HintedResize(c))
         IN /\ d \in Client /\ Seen(d)
            /\ d.geom = ApplySizeHints(c.hint, ApplySizeHints(c.hint, c.geom))
            /\ d.xborder = c.bwidth
            /\ Alike(d, c, {"geom", "xgeom", "xborder", "atoms"})
<1> DEFINE e == [c EXCEPT !.geom = ApplySizeHints(c.hint, @)]
           d == SetNetWmState(Resize(e))
<1>1. /\ e \in Client /\ HintedResize(c) = Resize(e)
      /\ e.geom = ApplySizeHints(c.hint, c.geom) /\ Alike(e, c, {"geom"})
  BY HintedType
<1> HIDE DEF e
<1>2. /\ d \in Client /\ Seen(d)
      /\ d.geom = ApplySizeHints(e.hint, e.geom)
      /\ d.xborder = e.bwidth
      /\ Alike(d, e, {"geom", "xgeom", "xborder", "atoms"})
  BY <1>1, ShapeType
<1> HIDE DEF d
<1>3. e.hint = c.hint /\ e.bwidth = c.bwidth
  BY <1>1 DEF Alike
<1>4. Alike(d, c, {"geom", "xgeom", "xborder", "atoms"})
  BY <1>1, <1>2 DEF Alike
<1> QED
  BY <1>1, <1>2, <1>3, <1>4 DEF d

----------------------------------------------------------------------------
(* The toggles.                                                            *)

\* Where hints leave a rectangle that has the size of n on an axis
LEMMA FittingUse ==
  ASSUME NEW hint \in Hints, NEW n \in Rects, Fitting(hint, n), NEW g \in Rects
  PROVE  /\ ApplySizeHints(hint, g).x = g.x /\ ApplySizeHints(hint, g).y = g.y
         /\ g.w = n.w => ApplySizeHints(hint, g).w = n.w
         /\ g.h = n.h => ApplySizeHints(hint, g).h = n.h
BY HintsType DEF Fitting, FitsW, FitsH

\* ... once more.
LEMMA FittingTwice ==
  ASSUME NEW hint \in Hints, NEW n \in Rects, Fitting(hint, n), NEW g \in Rects
  PROVE  LET d == ApplySizeHints(hint, ApplySizeHints(hint, g))
         IN /\ d.x = g.x /\ d.y = g.y
            /\ g.w = n.w => d.w = n.w
            /\ g.h = n.h => d.h = n.h
<1>1. ApplySizeHints(hint, g) \in Rects
  BY HintsType
<1> QED
  BY <1>1, FittingUse

\* client_toggle_vmaximize preserves the normal geometry.
LEMMA VmaximizePreserves ==
  ASSUME NEW c \in Client
  PROVE  Preserved(c, ToggleVmaximize(c))
<1>1. CASE "FREEZE" \in c.flags
  BY <1>1, PreservedRefl DEF ToggleVmaximize
<1>2. CASE "FREEZE" \notin c.flags /\ "VMAX" \in c.flags
  <2> DEFINE e == [c EXCEPT !.geom.y = c.save.y, !.geom.h = c.save.h,
                            !.flags  = @ \ {"VMAX"}]
             d == SetNetWmState(Resize(e))
  <2>1. e \in Client
    BY DEF Client, Rects
  <2>2. /\ e.geom.x = c.geom.x /\ e.geom.w = c.geom.w
        /\ e.geom.y = c.save.y /\ e.geom.h = c.save.h
        /\ e.flags = c.flags \ {"VMAX"}
        /\ Alike(e, c, {"geom", "flags"})
    BY DEF Alike, Client, Rects
  <2>3. d = ToggleVmaximize(c)
    BY <1>2 DEF ToggleVmaximize
  <2> HIDE DEF e
  <2>4. /\ d \in Client /\ Seen(d)
        /\ d.geom = ApplySizeHints(e.hint, e.geom)
        /\ d.xborder = e.bwidth
        /\ Alike(d, e, {"geom", "xgeom", "xborder", "atoms"})
    BY <2>1, ShapeType
  <2> HIDE DEF d
  <2>5. /\ d.flags = c.flags \ {"VMAX"} /\ d.hint = c.hint /\ d.save = c.save
        /\ d.full = c.full /\ d.group = c.group /\ d.records = c.records
        /\ d.bwidth = c.bwidth /\ d.xborder = d.bwidth
        /\ e.hint = c.hint /\ e.hint \in Hints /\ e.geom \in Rects
    BY <2>1, <2>2, <2>4 DEF Alike, Client
  <2>6. ASSUME Bordered(c) PROVE Bordered(d)
    BY <1>2, <2>5, <2>6 DEF Bordered
  <2>7. ASSUME Held(c), NEW n \in Rects, Kept(c, n) PROVE Kept(d, n)
    <3>1. Fitting(e.hint, n) /\ "FULLSCREEN" \notin c.flags
      BY <1>2, <2>5, <2>7 DEF Kept, Held
    <3>2. /\ d.geom.x = e.geom.x /\ d.geom.y = e.geom.y
          /\ e.geom.w = n.w => d.geom.w = n.w
          /\ e.geom.h = n.h => d.geom.h = n.h
      BY <2>4, <2>5, <3>1, FittingUse
    <3> QED BY <1>2, <2>2, <2>5, <2>7, <3>1, <3>2 DEF Kept
  <2>8. Preserved(c, d)
    BY <2>4, <2>5, <2>6, <2>7 DEF Preserved, KeepsNormal, Held
  <2> QED BY <2>3, <2>8
<1>3. CASE "FREEZE" \notin c.flags /\ "VMAX" \notin c.flags
  <2> DEFINE e == [c EXCEPT !.save.y = c.geom.y, !.save.h = c.geom.h,
                            !.geom.y = Work.y,   !.geom.h = Work.h - 2 * c.bwidth,
                            !.flags  = @ \cup {"VMAX"}]
             d == SetNetWmState(Resize(e))
  <2>1. e \in Client
    <3>1. Work.y \in Int /\ Work.h - 2 * c.bwidth \in Int
      BY WorkType DEF Client, Rects
    <3> QED BY <3>1 DEF Client, Rects, GeomFlags, MAXIMIZED
  <2>2. /\ e.geom.x = c.geom.x /\ e.geom.w = c.geom.w
        /\ e.save = [c.save EXCEPT !.y = c.geom.y, !.h = c.geom.h]
        /\ e.flags = c.flags \cup {"VMAX"}
        /\ Alike(e, c, {"geom", "save", "flags"})
    BY DEF Alike, Client, Rects
  <2>3. d = ToggleVmaximize(c)
    BY <1>3 DEF ToggleVmaximize
  <2> HIDE DEF e
  <2>4. /\ d \in Client /\ Seen(d)
        /\ d.geom = ApplySizeHints(e.hint, e.geom)
        /\ d.xborder = e.bwidth
        /\ Alike(d, e, {"geom", "xgeom", "xborder", "atoms"})
    BY <2>1, ShapeType
  <2> HIDE DEF d
  <2>5. /\ d.flags = c.flags \cup {"VMAX"} /\ d.hint = c.hint
        /\ d.save.x = c.save.x /\ d.save.w = c.save.w
        /\ d.save.y = c.geom.y /\ d.save.h = c.geom.h
        /\ d.full = c.full /\ d.group = c.group /\ d.records = c.records
        /\ d.bwidth = c.bwidth /\ d.xborder = d.bwidth
        /\ e.hint = c.hint /\ e.hint \in Hints /\ e.geom \in Rects
    BY <2>1, <2>2, <2>4 DEF Alike, Client, Rects
  <2>6. ASSUME Bordered(c) PROVE Bordered(d)
    BY <1>3, <2>5, <2>6 DEF Bordered
  <2>7. ASSUME Held(c), NEW n \in Rects, Kept(c, n) PROVE Kept(d, n)
    <3>1. Fitting(e.hint, n) /\ "FULLSCREEN" \notin c.flags
      BY <1>3, <2>5, <2>7 DEF Kept, Held
    <3>2. /\ d.geom.x = e.geom.x /\ d.geom.y = e.geom.y
          /\ e.geom.w = n.w => d.geom.w = n.w
          /\ e.geom.h = n.h => d.geom.h = n.h
      BY <2>4, <2>5, <3>1, FittingUse
    <3> QED BY <1>3, <2>2, <2>5, <2>7, <3>1, <3>2 DEF Kept
  <2>8. Preserved(c, d)
    BY <2>4, <2>5, <2>6, <2>7 DEF Preserved, KeepsNormal, Held
  <2> QED BY <2>3, <2>8
<1> QED
  BY <1>1, <1>2, <1>3

\* client_toggle_hmaximize does.
LEMMA HmaximizePreserves ==
  ASSUME NEW c \in Client
  PROVE  Preserved(c, ToggleHmaximize(c))
<1>1. CASE "FREEZE" \in c.flags
  BY <1>1, PreservedRefl DEF ToggleHmaximize
<1>2. CASE "FREEZE" \notin c.flags /\ "HMAX" \in c.flags
  <2> DEFINE e == [c EXCEPT !.geom.x = c.save.x, !.geom.w = c.save.w,
                            !.flags  = @ \ {"HMAX"}]
             d == SetNetWmState(Resize(e))
  <2>1. e \in Client
    BY DEF Client, Rects
  <2>2. /\ e.geom.y = c.geom.y /\ e.geom.h = c.geom.h
        /\ e.geom.x = c.save.x /\ e.geom.w = c.save.w
        /\ e.flags = c.flags \ {"HMAX"}
        /\ Alike(e, c, {"geom", "flags"})
    BY DEF Alike, Client, Rects
  <2>3. d = ToggleHmaximize(c)
    BY <1>2 DEF ToggleHmaximize
  <2> HIDE DEF e
  <2>4. /\ d \in Client /\ Seen(d)
        /\ d.geom = ApplySizeHints(e.hint, e.geom)
        /\ d.xborder = e.bwidth
        /\ Alike(d, e, {"geom", "xgeom", "xborder", "atoms"})
    BY <2>1, ShapeType
  <2> HIDE DEF d
  <2>5. /\ d.flags = c.flags \ {"HMAX"} /\ d.hint = c.hint /\ d.save = c.save
        /\ d.full = c.full /\ d.group = c.group /\ d.records = c.records
        /\ d.bwidth = c.bwidth /\ d.xborder = d.bwidth
        /\ e.hint = c.hint /\ e.hint \in Hints /\ e.geom \in Rects
    BY <2>1, <2>2, <2>4 DEF Alike, Client
  <2>6. ASSUME Bordered(c) PROVE Bordered(d)
    BY <1>2, <2>5, <2>6 DEF Bordered
  <2>7. ASSUME Held(c), NEW n \in Rects, Kept(c, n) PROVE Kept(d, n)
    <3>1. Fitting(e.hint, n) /\ "FULLSCREEN" \notin c.flags
      BY <1>2, <2>5, <2>7 DEF Kept, Held
    <3>2. /\ d.geom.y = e.geom.y /\ d.geom.x = e.geom.x
          /\ e.geom.h = n.h => d.geom.h = n.h
          /\ e.geom.w = n.w => d.geom.w = n.w
      BY <2>4, <2>5, <3>1, FittingUse
    <3> QED BY <1>2, <2>2, <2>5, <2>7, <3>1, <3>2 DEF Kept
  <2>8. Preserved(c, d)
    BY <2>4, <2>5, <2>6, <2>7 DEF Preserved, KeepsNormal, Held
  <2> QED BY <2>3, <2>8
<1>3. CASE "FREEZE" \notin c.flags /\ "HMAX" \notin c.flags
  <2> DEFINE e == [c EXCEPT !.save.x = c.geom.x, !.save.w = c.geom.w,
                            !.geom.x = Work.x,   !.geom.w = Work.w - 2 * c.bwidth,
                            !.flags  = @ \cup {"HMAX"}]
             d == SetNetWmState(Resize(e))
  <2>1. e \in Client
    <3>1. Work.x \in Int /\ Work.w - 2 * c.bwidth \in Int
      BY WorkType DEF Client, Rects
    <3> QED BY <3>1 DEF Client, Rects, GeomFlags, MAXIMIZED
  <2>2. /\ e.geom.y = c.geom.y /\ e.geom.h = c.geom.h
        /\ e.save = [c.save EXCEPT !.x = c.geom.x, !.w = c.geom.w]
        /\ e.flags = c.flags \cup {"HMAX"}
        /\ Alike(e, c, {"geom", "save", "flags"})
    BY DEF Alike, Client, Rects
  <2>3. d = ToggleHmaximize(c)
    BY <1>3 DEF ToggleHmaximize
  <2> HIDE DEF e
  <2>4. /\ d \in Client /\ Seen(d)
        /\ d.geom = ApplySizeHints(e.hint, e.geom)
        /\ d.xborder = e.bwidth
        /\ Alike(d, e, {"geom", "xgeom", "xborder", "atoms"})
    BY <2>1, ShapeType
  <2> HIDE DEF d
  <2>5. /\ d.flags = c.flags \cup {"HMAX"} /\ d.hint = c.hint
        /\ d.save.y = c.save.y /\ d.save.h = c.save.h
        /\ d.save.x = c.geom.x /\ d.save.w = c.geom.w
        /\ d.full = c.full /\ d.group = c.group /\ d.records = c.records
        /\ d.bwidth = c.bwidth /\ d.xborder = d.bwidth
        /\ e.hint = c.hint /\ e.hint \in Hints /\ e.geom \in Rects
    BY <2>1, <2>2, <2>4 DEF Alike, Client, Rects
  <2>6. ASSUME Bordered(c) PROVE Bordered(d)
    BY <1>3, <2>5, <2>6 DEF Bordered
  <2>7. ASSUME Held(c), NEW n \in Rects, Kept(c, n) PROVE Kept(d, n)
    <3>1. Fitting(e.hint, n) /\ "FULLSCREEN" \notin c.flags
      BY <1>3, <2>5, <2>7 DEF Kept, Held
    <3>2. /\ d.geom.y = e.geom.y /\ d.geom.x = e.geom.x
          /\ e.geom.h = n.h => d.geom.h = n.h
          /\ e.geom.w = n.w => d.geom.w = n.w
      BY <2>4, <2>5, <3>1, FittingUse
    <3> QED BY <1>3, <2>2, <2>5, <2>7, <3>1, <3>2 DEF Kept
  <2>8. Preserved(c, d)
    BY <2>4, <2>5, <2>6, <2>7 DEF Preserved, KeepsNormal, Held
  <2> QED BY <2>3, <2>8
<1> QED
  BY <1>1, <1>2, <1>3

\* client_toggle_maximize does.
LEMMA MaximizePreserves ==
  ASSUME NEW c \in Client
  PROVE  Preserved(c, ToggleMaximize(c))
<1>1. CASE "FREEZE" \in c.flags
  BY <1>1, PreservedRefl DEF ToggleMaximize
<1>2. CASE "FREEZE" \notin c.flags /\ MAXIMIZED \subseteq c.flags
  <2> DEFINE e == [c EXCEPT !.geom  = c.save, !.flags = @ \ MAXIMIZED]
             d == SetNetWmState(HintedResize(e))
  <2>1. e \in Client
    BY DEF Client
  <2>2. /\ e.geom = c.save /\ e.flags = c.flags \ MAXIMIZED
        /\ Alike(e, c, {"geom", "flags"})
    BY DEF Alike, Client
  <2>3. d = ToggleMaximize(c)
    BY <1>2 DEF ToggleMaximize
  <2> HIDE DEF e
  <2>4. /\ d \in Client /\ Seen(d)
        /\ d.geom = ApplySizeHints(e.hint, ApplySizeHints(e.hint, e.geom))
        /\ d.xborder = e.bwidth
        /\ Alike(d, e, {"geom", "xgeom", "xborder", "atoms"})
    BY <2>1, HintedShapeType
  <2> HIDE DEF d
  <2>5. /\ d.flags = c.flags \ MAXIMIZED /\ d.hint = c.hint /\ d.save = c.save
        /\ d.full = c.full /\ d.group = c.group /\ d.records = c.records
        /\ d.bwidth = c.bwidth /\ d.xborder = d.bwidth
        /\ e.hint = c.hint /\ e.hint \in Hints /\ e.geom \in Rects
    BY <2>1, <2>2, <2>4 DEF Alike, Client
  <2>6. ASSUME Bordered(c) PROVE Bordered(d)
    BY <1>2, <2>5, <2>6 DEF Bordered, MAXIMIZED
  <2>7. ASSUME Held(c), NEW n \in Rects, Kept(c, n) PROVE Kept(d, n)
    <3>1. Fitting(e.hint, n) /\ "FULLSCREEN" \notin c.flags
      BY <1>2, <2>5, <2>7 DEF Kept, Held
    <3>2. /\ d.geom.x = e.geom.x /\ d.geom.y = e.geom.y
          /\ e.geom.w = n.w => d.geom.w = n.w
          /\ e.geom.h = n.h => d.geom.h = n.h
      BY <2>4, <2>5, <3>1, FittingTwice
    <3> QED BY <1>2, <2>2, <2>5, <2>7, <3>1, <3>2 DEF Kept, MAXIMIZED
  <2>8. {"STICKY", "IGNORE"} \cap d.flags = {"STICKY", "IGNORE"} \cap c.flags
    BY <2>5 DEF MAXIMIZED
  <2>9. Preserved(c, d)
    BY <2>4, <2>5, <2>6, <2>7, <2>8 DEF Preserved, KeepsNormal, Held, MAXIMIZED
  <2> QED BY <2>3, <2>9
<1>3. CASE "FREEZE" \notin c.flags /\ ~(MAXIMIZED \subseteq c.flags)
  <2> DEFINE v == IF "VMAX" \in c.flags THEN c.save ELSE c.geom
             h == IF "HMAX" \in c.flags THEN c.save ELSE c.geom
             s == Rect(h.x, v.y, h.w, v.h)
             g == Rect(Work.x, Work.y, Work.w - 2 * c.bwidth, Work.h - 2 * c.bwidth)
             e == [c EXCEPT !.save = s, !.geom = g, !.flags = @ \cup MAXIMIZED]
             d == SetNetWmState(HintedResize(e))
  <2>1. s \in Rects /\ g \in Rects
    <3>1. v \in Rects /\ h \in Rects
      BY DEF Client
    <3>2. s \in Rects
      <4> HIDE DEF v, h
      <4> QED BY <3>1 DEF Rect, Rects
    <3>3. g \in Rects
      BY WorkType DEF Client, Rect, Rects
    <3> QED BY <3>2, <3>3
  <2>2. d = ToggleMaximize(c)
    BY <1>3 DEF ToggleMaximize
  <2>3. s.x = h.x /\ s.y = v.y /\ s.w = h.w /\ s.h = v.h
    BY DEF Rect
  <2> HIDE DEF s, g
  <2>4. e \in Client
    BY <2>1 DEF Client, GeomFlags, MAXIMIZED
  <2>5. /\ e.save = s /\ e.flags = c.flags \cup MAXIMIZED
        /\ Alike(e, c, {"geom", "save", "flags"})
    BY DEF Alike, Client
  <2> HIDE DEF e
  <2>6. /\ d \in Client /\ Seen(d)
        /\ d.geom = ApplySizeHints(e.hint, ApplySizeHints(e.hint, e.geom))
        /\ d.xborder = e.bwidth
        /\ Alike(d, e, {"geom", "xgeom", "xborder", "atoms"})
    BY <2>4, HintedShapeType
  <2> HIDE DEF d
  <2>7. /\ d.flags = c.flags \cup MAXIMIZED /\ d.hint = c.hint /\ d.save = s
        /\ d.full = c.full /\ d.group = c.group /\ d.records = c.records
        /\ d.bwidth = c.bwidth /\ d.xborder = d.bwidth
    BY <2>5, <2>6 DEF Alike
  <2>8. ASSUME Bordered(c) PROVE Bordered(d)
    BY <1>3, <2>7, <2>8 DEF Bordered, MAXIMIZED
  <2>9. ASSUME Held(c), NEW n \in Rects, Kept(c, n) PROVE Kept(d, n)
    <3>1. Fitting(d.hint, n) /\ "FULLSCREEN" \notin c.flags
      BY <1>3, <2>7, <2>9 DEF Kept, Held
    <3>2. n.x = h.x /\ n.w = h.w /\ n.y = v.y /\ n.h = v.h
      BY <2>9, <3>1 DEF Kept
    <3>3. {"HMAX", "VMAX"} \subseteq d.flags /\ "FULLSCREEN" \notin d.flags
      BY <2>7, <3>1 DEF MAXIMIZED
    <3> QED BY <2>3, <2>7, <3>1, <3>2, <3>3 DEF Kept
  <2>10. {"STICKY", "IGNORE"} \cap d.flags = {"STICKY", "IGNORE"} \cap c.flags
    BY <2>7 DEF MAXIMIZED
  <2>11. Preserved(c, d)
    BY <2>6, <2>7, <2>8, <2>9, <2>10 DEF Preserved, KeepsNormal, Held, MAXIMIZED
  <2> QED BY <2>2, <2>11
<1> QED
  BY <1>1, <1>2, <1>3

\* client_toggle_fullscreen does.
LEMMA FullscreenPreserves ==
  ASSUME NEW c \in Client
  PROVE  Preserved(c, ToggleFullscreen(c)) /\ KeepsNormal(c, ToggleFullscreen(c))
<1>1. CASE "FREEZE" \in c.flags /\ "FULLSCREEN" \notin c.flags
  BY <1>1, PreservedRefl DEF ToggleFullscreen, KeepsNormal
<1>2. CASE "FULLSCREEN" \in c.flags
  <2> DEFINE b == IF "BORDER" \in c.flags THEN BWidth ELSE c.bwidth
             e == [c EXCEPT !.bwidth = b, !.geom = c.full,
                            !.flags = @ \ {"FULLSCREEN", "FREEZE"}]
             d == SetNetWmState(Resize(e))
  <2>1. e \in Client
    <3>1. b \in Int
      BY BWidthType DEF Client
    <3> QED BY <3>1 DEF Client
  <2>2. /\ e.geom = c.full /\ e.flags = c.flags \ {"FULLSCREEN", "FREEZE"}
        /\ e.bwidth = b
        /\ Alike(e, c, {"geom", "flags", "bwidth"})
    BY DEF Alike, Client
  <2>3. d = ToggleFullscreen(c)
    <3>1. e = [c EXCEPT !.bwidth = IF "BORDER" \in c.flags THEN BWidth ELSE @,
                        !.geom = c.full,
                        !.flags = @ \ {"FULLSCREEN", "FREEZE"}]
      BY DEF Client
    <3> QED BY <1>2, <3>1 DEF ToggleFullscreen
  <2> HIDE DEF e
  <2>4. /\ d \in Client /\ Seen(d)
        /\ d.geom = ApplySizeHints(e.hint, e.geom)
        /\ d.xborder = e.bwidth
        /\ Alike(d, e, {"geom", "xgeom", "xborder", "atoms"})
    BY <2>1, ShapeType
  <2> HIDE DEF d
  <2>5. /\ d.flags = c.flags \ {"FULLSCREEN", "FREEZE"} /\ d.hint = c.hint
        /\ d.save = c.save
        /\ d.full = c.full /\ d.group = c.group /\ d.records = c.records
        /\ d.bwidth = b /\ d.xborder = d.bwidth
        /\ e.hint = c.hint /\ e.hint \in Hints /\ e.geom \in Rects
    BY <2>1, <2>2, <2>4 DEF Alike, Client
  <2>6. ASSUME Bordered(c) PROVE Bordered(d)
    BY <1>2, <2>5, <2>6 DEF Bordered
  <2>7. ASSUME NEW n \in Rects, Kept(c, n) PROVE Kept(d, n)
    <3>1. Fitting(e.hint, n)
      BY <1>2, <2>5, <2>7 DEF Kept
    <3>2. /\ d.geom.x = e.geom.x /\ d.geom.y = e.geom.y
          /\ e.geom.w = n.w => d.geom.w = n.w
          /\ e.geom.h = n.h => d.geom.h = n.h
      BY <2>4, <2>5, <3>1, FittingUse
    <3> QED BY <1>2, <2>2, <2>5, <2>7, <3>1, <3>2 DEF Kept
  <2>8. Preserved(c, d) /\ KeepsNormal(c, d)
    BY <2>4, <2>5, <2>6, <2>7 DEF Preserved, KeepsNormal, Held
  <2> QED BY <2>3, <2>8
<1>3. CASE "FREEZE" \notin c.flags /\ "FULLSCREEN" \notin c.flags
  <2> DEFINE e == [c EXCEPT !.full = c.geom, !.bwidth = 0, !.geom = View,
                            !.flags = @ \cup {"FULLSCREEN", "FREEZE"}]
             d == SetNetWmState(Resize(e))
  <2>1. e \in Client
    <3> DEFINE f == c.flags \cup {"FULLSCREEN", "FREEZE"}
               g == c.geom
               b == 0
    <3>1. g \in Rects /\ b \in Int /\ View \in Rects /\ f \in SUBSET GeomFlags
      BY BWidthType DEF GeomFlags, Client
    <3>2. e = [c EXCEPT !.full = g, !.bwidth = b, !.geom = View, !.flags = f]
      BY DEF Client
    <3> HIDE DEF f, e, g, b
    <3> QED BY <3>1, <3>2 DEF Client
  <2>2. /\ e.full = c.geom /\ e.flags = c.flags \cup {"FULLSCREEN", "FREEZE"}
        /\ e.bwidth = 0
        /\ Alike(e, c, {"geom", "full", "flags", "bwidth"})
    BY DEF Alike, Client
  <2>3. d = ToggleFullscreen(c)
    BY <1>3 DEF ToggleFullscreen
  <2> HIDE DEF e
  <2>4. /\ d \in Client /\ Seen(d)
        /\ d.xborder = e.bwidth
        /\ Alike(d, e, {"geom", "xgeom", "xborder", "atoms"})
    BY <2>1, ShapeType
  <2> HIDE DEF d
  <2>5. /\ d.flags = c.flags \cup {"FULLSCREEN", "FREEZE"} /\ d.hint = c.hint
        /\ d.save = c.save
        /\ d.full = c.geom /\ d.group = c.group /\ d.records = c.records
        /\ d.bwidth = 0 /\ d.xborder = 0
    BY <2>1, <2>2, <2>4 DEF Alike, Client
  <2>6. ASSUME Bordered(c) PROVE Bordered(d)
    BY <1>3, <2>5, <2>6 DEF Bordered
  <2>7. ASSUME NEW n \in Rects, Kept(c, n) PROVE Kept(d, n)
    BY <1>3, <2>5, <2>7 DEF Kept
  <2>8. Preserved(c, d) /\ KeepsNormal(c, d)
    BY <2>4, <2>5, <2>6, <2>7 DEF Preserved, KeepsNormal, Held
  <2> QED BY <2>3, <2>8
<1> QED
  BY <1>1, <1>2, <1>3

\* client_toggle_border does.
LEMMA BorderPreserves ==
  ASSUME NEW c \in Client
  PROVE  Preserved(c, ToggleBorder(c)) /\ KeepsNormal(c, ToggleBorder(c))
<1> DEFINE on == "BORDER" \notin c.flags
           f == IF on THEN c.flags \cup {"BORDER"} ELSE c.flags \ {"BORDER"}
           b == IF on THEN BWidth ELSE 0
           d == [c EXCEPT !.flags = f, !.bwidth = b, !.xborder = b]
<1>1. f \in SUBSET GeomFlags /\ b \in Int
  BY BWidthType DEF Client, GeomFlags
<1>2. ToggleBorder(c) = d
  BY DEF ToggleBorder, DrawBorder, Client
<1>3. /\ {"STICKY", "IGNORE"} \cap f = {"STICKY", "IGNORE"} \cap c.flags
      /\ StateAtoms(f) = StateAtoms(c.flags)
  BY DEF StateAtoms, NetStates, MAXIMIZED
<1> HIDE DEF f, b
<1>4. d \in Client
  BY <1>1 DEF Client
<1>5. /\ d.flags = f /\ d.bwidth = b /\ d.xborder = b
      /\ Alike(d, c, {"flags", "bwidth", "xborder"})
  BY DEF Alike, Client
<1> HIDE DEF d
<1>6. Seen(c) => Seen(d)
  BY <1>3, <1>5 DEF Seen, Alike
<1>7. Bordered(c) => Bordered(d)
  BY <1>5 DEF Bordered, f, b
<1>8. /\ d.geom = c.geom /\ d.save = c.save /\ d.full = c.full /\ d.hint = c.hint
      /\ d.group = c.group /\ d.records = c.records
      /\ d.flags \ {"BORDER"} = c.flags \ {"BORDER"}
  BY <1>5 DEF Alike, f
<1>9. (Held(c) => Held(d)) /\ KeepsNormal(c, d)
  BY <1>8 DEF Kept, KeepsNormal, Held
<1>10. Preserved(c, d)
  BY <1>3, <1>4, <1>5, <1>6, <1>7, <1>8, <1>9 DEF Preserved
<1> QED
  BY <1>2, <1>9, <1>10

\* client_toggle_freeze touches nothing but its flag.
LEMMA FreezePreserves ==
  ASSUME NEW c \in Client
  PROVE  LET d == ToggleFreeze(c)
         IN /\ d \in Client /\ (Seen(c) => Seen(d))
            /\ Alike(d, c, {"flags"})
            /\ {"STICKY", "IGNORE"} \cap d.flags = {"STICKY", "IGNORE"} \cap c.flags
            /\ (Bordered(c) => Bordered(d)) /\ KeepsNormal(c, d)
<1> DEFINE f == IF "FREEZE" \in c.flags THEN c.flags \ {"FREEZE"}
                                        ELSE c.flags \cup {"FREEZE"}
           d == [c EXCEPT !.flags = f]
<1>1. f \in SUBSET GeomFlags
  BY DEF Client, GeomFlags
<1>2. ToggleFreeze(c) = d
  BY DEF ToggleFreeze, Client
<1>3. /\ {"STICKY", "IGNORE"} \cap f = {"STICKY", "IGNORE"} \cap c.flags
      /\ StateAtoms(f) = StateAtoms(c.flags)
  BY DEF StateAtoms, NetStates, MAXIMIZED
<1> HIDE DEF f
<1>4. d \in Client
  BY <1>1 DEF Client
<1>5. d.flags = f /\ Alike(d, c, {"flags"})
  BY DEF Alike, Client
<1> HIDE DEF d
<1>6. Seen(c) => Seen(d)
  BY <1>3, <1>5 DEF Seen, Alike
<1>7. /\ d.geom = c.geom /\ d.save = c.save /\ d.full = c.full /\ d.hint = c.hint
      /\ d.group = c.group /\ d.records = c.records
      /\ d.bwidth = c.bwidth /\ d.xborder = c.xborder
      /\ d.flags \ {"FREEZE"} = c.flags \ {"FREEZE"}
  BY <1>5 DEF Alike, f
<1>8. (Bordered(c) => Bordered(d)) /\ KeepsNormal(c, d)
  BY <1>7 DEF Bordered, Kept, KeepsNormal
<1> QED
  BY <1>2, <1>3, <1>4, <1>5, <1>6, <1>8

\* The toggles a client message asks for
LEMMA NetWmStatePreserves ==
  ASSUME NEW c \in Client, NEW action, NEW atoms
  PROVE  Preserved(c, NetWmState(c, action, atoms))
<1> DEFINE Due(d, a) == /\ a \in atoms
                        /\ \/ action = "add" /\ a \notin d.flags
                           \/ action = "remove" /\ a \in d.flags
                           \/ action = "toggle"
           v == IF Due(c, "VMAX") THEN ToggleVmaximize(c) ELSE c
           h == IF Due(v, "HMAX") THEN ToggleHmaximize(v) ELSE v
           f == IF Due(h, "FULLSCREEN") THEN ToggleFullscreen(h) ELSE h
<1>1. Preserved(c, v)
  BY VmaximizePreserves, PreservedRefl
<1>2. NetWmState(c, action, atoms) = f
  BY DEF NetWmState
<1> HIDE DEF v
<1>3. v \in Client
  BY <1>1 DEF Preserved
<1>4. Preserved(v, h)
  BY <1>3, HmaximizePreserves, PreservedRefl
<1> HIDE DEF h
<1>5. h \in Client
  BY <1>4 DEF Preserved
<1>6. Preserved(h, f)
  BY <1>5, FullscreenPreserves, PreservedRefl
<1> HIDE DEF f
<1>7. Preserved(c, h)
  BY <1>1, <1>4, PreservedTrans
<1> QED
  BY <1>2, <1>6, <1>7, PreservedTrans

\* xu_ewmh_restore_net_wm_state does, for any atom.
LEMMA RestoredPreserves ==
  ASSUME NEW c \in Client, NEW a \in StateNames
  PROVE  Preserved(c, Restored(c, a))
<1>1. CASE a = "VMAX"
  BY <1>1, VmaximizePreserves DEF Restored
<1>2. CASE a = "HMAX"
  BY <1>2, HmaximizePreserves DEF Restored
<1>3. CASE a = "FULLSCREEN"
  BY <1>3, FullscreenPreserves DEF Restored
<1> QED
  BY <1>1, <1>2, <1>3 DEF StateNames

\* The toggles of a window that arrives, in the order of its property
LEMMA RestorePreserves ==
  ASSUME NEW c \in Client, NEW atoms \in Seq(StateNames)
  PROVE  Preserved(c, RestoreNetWmState(c, atoms))
<1> DEFINE n == Len(atoms)
           T == {d \in Client : Preserved(c, d)}
           step == [p \in T \X (1 .. n) |-> Restored(p[1], atoms[p[2]])]
           Is(g) == g = [s \in SUBSET DOMAIN atoms |->
                           IF s = {} THEN c ELSE Restored(g[s \ {Max(s)}], atoms[Max(s)])]
           it == CHOOSE g : Is(g)
<1>1. n \in Nat /\ DOMAIN atoms = 1 .. n
  OBVIOUS
<1>2. c \in T
  BY PreservedRefl
<1>3. \A d \in T, i \in 1 .. n : Restored(d, atoms[i]) \in T
  <2> SUFFICES ASSUME NEW d \in T, NEW i \in 1 .. n
               PROVE  Restored(d, atoms[i]) \in T
    OBVIOUS
  <2>1. atoms[i] \in StateNames
    OBVIOUS
  <2>2. Preserved(d, Restored(d, atoms[i]))
    BY <2>1, RestoredPreserves
  <2>3. Preserved(c, Restored(d, atoms[i]))
    BY <2>2, PreservedTrans
  <2> QED BY <2>2, <2>3 DEF Preserved
<1> HIDE DEF n, T
<1>4. step \in [T \X (1 .. n) -> T]
  BY <1>3
<1>5. \A d \in T, i \in 1 .. n : step[<<d, i>>] = Restored(d, atoms[i])
  OBVIOUS
<1>6. RestoreNetWmState(c, atoms) = it[DOMAIN atoms]
  BY Zenon DEF RestoreNetWmState, FoldLeft, MapThenFoldSet
<1> HIDE DEF step
<1>7. PICK h \in [SUBSET (1 .. n) -> T] : Recursion(h, c, step, n)
  <2> HIDE DEF it, Is
  <2> QED BY <1>1, <1>2, <1>4, SubsetRecursion
<1>8. Is(h)
  <2>1. ASSUME NEW s \in SUBSET (1 .. n), s # {}
        PROVE  h[s] = Restored(h[s \ {Max(s)}], atoms[Max(s)])
    <3>1. Max(s) \in 1 .. n /\ s \ {Max(s)} \in SUBSET (1 .. n)
      BY <1>1, <2>1, MaxInside
    <3>2. h[s] = step[<<h[s \ {Max(s)}], Max(s)>>]
      BY <1>7, <2>1 DEF Recursion
    <3> QED BY <1>5, <3>1, <3>2
  <2>2. h[{}] = c
    BY <1>7 DEF Recursion
  <2> QED BY <1>1, <2>1, <2>2
<1>9. Is(it)
  BY <1>8
<1>10. Follows(it, c, step, T, n)
  <2> SUFFICES ASSUME NEW s \in SUBSET (1 .. n), s # {}, it[s \ {Max(s)}] \in T
               PROVE  it[s] = step[<<it[s \ {Max(s)}], Max(s)>>]
    BY <1>1, <1>9 DEF Follows
  <2>1. Max(s) \in 1 .. n
    BY <1>1, MaxInside
  <2>2. it[s] = Restored(it[s \ {Max(s)}], atoms[Max(s)])
    BY <1>1, <1>9
  <2> QED BY <1>5, <2>1, <2>2
<1> HIDE DEF it, Is
<1>11. it[1 .. n] \in T
  <2>1. \A k \in 0 .. n : it[1 .. k] \in T
    BY <1>1, <1>2, <1>4, <1>10, FoldPrefixes
  <2> QED BY <1>1, <2>1
<1> QED
  BY <1>1, <1>6, <1>11 DEF T

----------------------------------------------------------------------------
(* Commands that place a window.                                           *)

\* The hints of a window always leave it with sizes that they leave as they are
Steady(hint) == \A g \in Rects : Fitting(hint, ApplySizeHints(hint, g))

\* The least that any command leaves of a client
Changed(c, d) ==
  /\ d \in Client
  /\ d.hint = c.hint
  /\ {"STICKY", "IGNORE"} \cap d.flags = {"STICKY", "IGNORE"} \cap c.flags
  /\ Seen(c) => Seen(d)

\* What is normal for c once placed as d is where d is to come back to
Normally(c, d) ==
  Steady(c.hint) => \A n \in Rects : Kept(c, n) => Kept(d, NormalAfter(d, n))

\* d is c, placed by a command
Settled(c, d) ==
  /\ d \in Client
  /\ d.hint = c.hint /\ d.group = c.group
  /\ {"STICKY", "IGNORE"} \cap d.flags = {"STICKY", "IGNORE"} \cap c.flags
  /\ Seen(c) => Seen(d)
  /\ Bordered(c) => Bordered(d)
  /\ Normally(c, d)

\* d is c moved.  The first time, its geometry is the server's.
Shifted(c, d) ==
  /\ d \in Client
  /\ Alike(d, c, {"geom", "xgeom", "extended"})
  /\ \/ d.geom.w = c.geom.w /\ d.geom.h = c.geom.h
     \/ \E g \in Rects : /\ d.geom.w = ApplySizeHints(c.hint, g).w
                         /\ d.geom.h = ApplySizeHints(c.hint, g).h

\* The normal geometry after a step, axis by axis.
LEMMA NormalAfterIs ==
  ASSUME NEW d \in Client, NEW n \in Rects
  PROVE  /\ NormalAfter(d, n) \in Rects
         /\ "FULLSCREEN" \in d.flags => NormalAfter(d, n) = n
         /\ "FULLSCREEN" \notin d.flags =>
              LET m == NormalAfter(d, n)
                  h == IF "HMAX" \in d.flags THEN n ELSE d.geom
                  v == IF "VMAX" \in d.flags THEN n ELSE d.geom
              IN m.x = h.x /\ m.w = h.w /\ m.y = v.y /\ m.h = v.h
<1>1. d.geom \in Rects
  BY DEF Client
<1> QED
  BY <1>1 DEF NormalAfter, Rect, Rects

\* A move keeps what is maximised, and a size that hints leave as it is.
LEMMA MoveNormally ==
  ASSUME NEW c \in Client, NEW d \in Client,
         d.hint = c.hint, d.flags = c.flags, d.save = c.save, d.full = c.full,
         Steady(c.hint) =>
           /\ d.geom.w = c.geom.w \/ FitsW(c.hint, d.geom.w)
           /\ d.geom.h = c.geom.h \/ FitsH(c.hint, d.geom.h)
  PROVE  Normally(c, d)
<1> SUFFICES ASSUME Steady(c.hint), NEW n \in Rects, Kept(c, n)
             PROVE  Kept(d, NormalAfter(d, n))
  BY DEF Normally
<1> DEFINE m == NormalAfter(d, n)
<1>1. CASE "FULLSCREEN" \in d.flags
  <2>1. m = n
    BY <1>1, NormalAfterIs
  <2> QED BY <1>1, <2>1 DEF Kept
<1>2. CASE "FULLSCREEN" \notin d.flags
  <2>1. LET h == IF "HMAX" \in d.flags THEN n ELSE d.geom
            v == IF "VMAX" \in d.flags THEN n ELSE d.geom
        IN m.x = h.x /\ m.w = h.w /\ m.y = v.y /\ m.h = v.h
    BY <1>2, NormalAfterIs
  <2> HIDE DEF m
  <2>2. FitsW(d.hint, m.w)
    BY <1>2, <2>1 DEF Kept, Fitting
  <2>3. FitsH(d.hint, m.h)
    BY <1>2, <2>1 DEF Kept, Fitting
  <2>4. Kept(d, m)
    BY <1>2, <2>1, <2>2, <2>3 DEF Kept, Fitting
  <2> QED BY <2>4 DEF m
<1> QED
  BY <1>1, <1>2

\* It settles a client whose border it leaves.
LEMMA MoveSettles ==
  ASSUME NEW c \in Client, NEW d \in Client,
         Alike(d, c, {"geom", "xgeom", "extended", "records"}),
         Steady(c.hint) =>
           /\ d.geom.w = c.geom.w \/ FitsW(c.hint, d.geom.w)
           /\ d.geom.h = c.geom.h \/ FitsH(c.hint, d.geom.h)
  PROVE  Settled(c, d)
<1>1. /\ d.hint = c.hint /\ d.group = c.group /\ d.flags = c.flags
      /\ d.save = c.save /\ d.full = c.full
      /\ d.bwidth = c.bwidth /\ d.xborder = c.xborder /\ d.atoms = c.atoms
  BY DEF Alike
<1>2. (Seen(c) => Seen(d)) /\ (Bordered(c) => Bordered(d))
  BY <1>1 DEF Seen, Bordered
<1>3. Normally(c, d)
  BY <1>1, MoveNormally
<1> QED
  BY <1>1, <1>2, <1>3 DEF Settled

\* A client that was only moved is settled where it is.
LEMMA ShiftSettles ==
  ASSUME NEW c \in Client, NEW d, Shifted(c, d)
  PROVE  Settled(c, d)
<1>1. d \in Client /\ Alike(d, c, {"geom", "xgeom", "extended", "records"})
  BY DEF Shifted, Alike
<1>2. ASSUME Steady(c.hint)
      PROVE  /\ d.geom.w = c.geom.w \/ FitsW(c.hint, d.geom.w)
             /\ d.geom.h = c.geom.h \/ FitsH(c.hint, d.geom.h)
  BY <1>2 DEF Shifted, Steady, Fitting
<1> QED
  BY <1>1, <1>2, MoveSettles

\* A resize takes a window out of what is maximised, and leaves it where it is to
\* come back to, in fullscreen not.
LEMMA ResizeNormally ==
  ASSUME NEW c \in Client, NEW d \in Client, "FULLSCREEN" \notin c.flags,
         d.hint = c.hint, d.flags = c.flags \ MAXIMIZED,
         NEW g \in Rects, d.geom = ApplySizeHints(c.hint, g)
  PROVE  Normally(c, d)
<1> SUFFICES ASSUME Steady(c.hint), NEW n \in Rects, Kept(c, n)
             PROVE  Kept(d, NormalAfter(d, n))
  BY DEF Normally
<1> DEFINE m == NormalAfter(d, n)
<1>1. {"HMAX", "VMAX", "FULLSCREEN"} \cap d.flags = {}
  BY DEF MAXIMIZED
<1>2. m.x = d.geom.x /\ m.w = d.geom.w /\ m.y = d.geom.y /\ m.h = d.geom.h
  BY <1>1, NormalAfterIs
<1> HIDE DEF m
<1>3. Fitting(d.hint, m)
  BY <1>2 DEF Steady, Fitting
<1>4. Kept(d, m)
  BY <1>1, <1>2, <1>3 DEF Kept
<1> QED
  BY <1>4 DEF m

\* client_data_extend moves a client at most.
LEMMA ExtendShifts ==
  ASSUME NEW c \in Client
  PROVE  Shifted(c, DataExtend(c)) /\ DataExtend(c).xgeom = c.xgeom
<1>1. CASE c.extended
  BY <1>1 DEF DataExtend, Shifted, Alike
<1>2. CASE ~c.extended
  <2> DEFINE r == Rect(c.xgeom.x - c.bwidth, c.xgeom.y - c.bwidth,
                       c.xgeom.w + 2 * c.bwidth, c.xgeom.h + 2 * c.bwidth)
             g == ApplySizeHints(c.hint, r)
  <2>1. r \in Rects
    BY DEF Client, Rect, Rects
  <2>2. g \in Rects
    <3> HIDE DEF r
    <3> QED BY <2>1, HintsType DEF Client
  <2>3. DataExtend(c) = [c EXCEPT !.extended = TRUE, !.geom = g]
    BY <1>2 DEF DataExtend
  <2> DEFINE d == [c EXCEPT !.extended = TRUE, !.geom = g]
  <2> HIDE DEF r, g
  <2>4. d \in Client /\ d.geom = g /\ d.xgeom = c.xgeom
    BY <2>2 DEF Client
  <2>5. Alike(d, c, {"geom", "xgeom", "extended"})
    BY DEF Alike, Client
  <2> HIDE DEF d
  <2>6. Shifted(c, d)
    BY <2>1, <2>4, <2>5 DEF Shifted, g
  <2> QED BY <2>3, <2>4, <2>6 DEF d
<1> QED
  BY <1>1, <1>2 DEF Client

\* A window is moved, and the server told, with a geometry of its own
LEMMA MoveShifts ==
  ASSUME NEW c \in Client, NEW g \in Rects, g.w = c.geom.w, g.h = c.geom.h
  PROVE  Shifted(c, Move([c EXCEPT !.geom = g]))
<1> DEFINE b == [c EXCEPT !.geom = g]
           e == DataExtend(b)
           d == [e EXCEPT !.xgeom.x = e.geom.x, !.xgeom.y = e.geom.y]
<1>1. b \in Client /\ b.geom = g /\ Alike(b, c, {"geom"})
  BY DEF Client, Alike
<1> HIDE DEF b
<1>2. Shifted(b, e)
  BY <1>1, ExtendShifts
<1> HIDE DEF e
<1>3. e \in Client
  BY <1>2 DEF Shifted
<1>4. /\ d \in Client /\ d.geom = e.geom
      /\ Alike(d, e, {"xgeom"})
  BY <1>3 DEF Client, Rects, Alike
<1>5. Move(b) = d
  BY DEF Move, e
<1> HIDE DEF d
<1>6. Alike(d, c, {"geom", "xgeom", "extended"})
  BY <1>1, <1>2, <1>4 DEF Alike, Shifted
<1>7. c.hint = b.hint
  BY <1>1 DEF Alike
<1>8. Shifted(c, d)
  BY <1>1, <1>2, <1>4, <1>6, <1>7 DEF Shifted
<1> QED
  BY <1>5, <1>8 DEF b

\* Moves compose.
LEMMA ShiftedTrans ==
  ASSUME NEW c, NEW d, NEW e, Shifted(c, d), Shifted(d, e)
  PROVE  Shifted(c, e)
<1>1. d.hint = c.hint
  BY DEF Shifted, Alike
<1>2. Alike(e, c, {"geom", "xgeom", "extended"})
  BY DEF Shifted, Alike
<1> QED
  BY <1>1, <1>2 DEF Shifted

\* No move is a move.
LEMMA ShiftedRefl ==
  ASSUME NEW c \in Client
  PROVE  Shifted(c, c)
BY DEF Shifted, Alike

\* A client that nothing happened to is settled.
LEMMA SettledRefl ==
  ASSUME NEW c \in Client
  PROVE  Settled(c, c)
BY ShiftSettles, ShiftedRefl

\* kbfunc_client_move moves a client.
LEMMA KeyMoveShifts ==
  ASSUME NEW c \in Client, NEW d \in Int \X Int
  PROVE  Shifted(c, KeyMove(c, d))
<1> DEFINE nx == Clamp(c.geom.x + d[1], c.geom.w, View.w)
           ny == Clamp(c.geom.y + d[2], c.geom.h, View.h)
           r  == [c.geom EXCEPT !.x = nx, !.y = ny]
           g  == Snapped(r, c.bwidth, Work, SnapDist)
<1>1. c.geom \in Rects /\ c.bwidth \in Int /\ SnapDist \in Int
  BY GeometryAssumption DEF Client
<1>2. /\ c.geom.x \in Int /\ c.geom.y \in Int /\ c.geom.w \in Int /\ c.geom.h \in Int
      /\ View.w \in Int /\ View.h \in Int
  BY <1>1, RectType, BWidthType
<1>3. nx \in Int /\ ny \in Int
  BY <1>2 DEF Clamp
<1>4. r = [c.geom EXCEPT !.x = Clamp(@ + d[1], c.geom.w, View.w),
                         !.y = Clamp(@ + d[2], c.geom.h, View.h)]
  BY <1>1 DEF Rects
<1> HIDE DEF nx, ny
<1>5. r \in Rects /\ r.w = c.geom.w /\ r.h = c.geom.h
  BY <1>1, <1>3 DEF Rects
<1> HIDE DEF r
<1>6. g \in Rects /\ g.w = c.geom.w /\ g.h = c.geom.h
  <2>1. g \in Rects /\ g.w = r.w /\ g.h = r.h
    <3>1. Work \in Rects /\ r \in Rects /\ c.bwidth \in Int /\ SnapDist \in Int
      BY <1>1, <1>5, WorkType
    <3> QED BY <3>1, SnappedType, ZenonT(60)
  <2> QED BY <1>5, <2>1
<1>7. "FREEZE" \notin c.flags => KeyMove(c, d) = Move([c EXCEPT !.geom = g])
  BY <1>4 DEF KeyMove
<1> HIDE DEF g
<1>8. "FREEZE" \in c.flags => KeyMove(c, d) = c
  BY DEF KeyMove
<1> QED
  BY <1>6, <1>7, <1>8, MoveShifts, ShiftedRefl

\* One step of a drag moves a client.
LEMMA DragShifts ==
  ASSUME NEW c \in Client, NEW p \in Int \X Int
  PROVE  Shifted(c, DragTo(c, p))
<1> DEFINE nx == p[1] - c.bwidth
           ny == p[2] - c.bwidth
           r  == [c.geom EXCEPT !.x = nx, !.y = ny]
           g  == Snapped(r, c.bwidth, Work, SnapDist)
<1>1. c.geom \in Rects /\ c.bwidth \in Int /\ SnapDist \in Int
  BY GeometryAssumption DEF Client
<1>2. nx \in Int /\ ny \in Int
  BY <1>1
<1>3. DragTo(c, p) = Move([c EXCEPT !.geom = g])
  BY DEF DragTo, Client
<1> HIDE DEF nx, ny
<1>4. r \in Rects /\ r.w = c.geom.w /\ r.h = c.geom.h
  BY <1>1, <1>2 DEF Rects
<1> HIDE DEF r
<1>5. g \in Rects /\ g.w = c.geom.w /\ g.h = c.geom.h
  <2>1. g \in Rects /\ g.w = r.w /\ g.h = r.h
    <3>1. Work \in Rects /\ r \in Rects /\ c.bwidth \in Int /\ SnapDist \in Int
      BY <1>1, <1>4, WorkType
    <3> QED BY <3>1, SnappedType, ZenonT(60)
  <2> QED BY <1>4, <2>1
<1> HIDE DEF g
<1> QED
  BY <1>3, <1>5, MoveShifts

\* A drag, however many motions the pointer makes
LEMMA DragsShift ==
  ASSUME NEW c \in Client, NEW path \in Seq(Int \X Int)
  PROVE  Shifted(c, FoldLeft(DragTo, c, path))
<1> DEFINE n == Len(path)
           T == {d \in Client : Shifted(c, d)}
           step == [p \in T \X (1 .. n) |-> DragTo(p[1], path[p[2]])]
           Is(g) == g = [s \in SUBSET DOMAIN path |->
                           IF s = {} THEN c ELSE DragTo(g[s \ {Max(s)}], path[Max(s)])]
           it == CHOOSE g : Is(g)
<1>1. n \in Nat /\ DOMAIN path = 1 .. n
  OBVIOUS
<1>2. c \in T
  BY ShiftedRefl
<1>3. \A d \in T, i \in 1 .. n : DragTo(d, path[i]) \in T
  <2> SUFFICES ASSUME NEW d \in T, NEW i \in 1 .. n
               PROVE  DragTo(d, path[i]) \in T
    OBVIOUS
  <2>1. path[i] \in Int \X Int
    OBVIOUS
  <2>2. Shifted(d, DragTo(d, path[i]))
    BY <2>1, DragShifts
  <2>3. Shifted(c, DragTo(d, path[i]))
    BY <2>2, ShiftedTrans
  <2> QED BY <2>2, <2>3 DEF Shifted
<1> HIDE DEF n, T
<1>4. step \in [T \X (1 .. n) -> T]
  BY <1>3
<1>5. \A d \in T, i \in 1 .. n : step[<<d, i>>] = DragTo(d, path[i])
  OBVIOUS
<1>6. FoldLeft(DragTo, c, path) = it[DOMAIN path]
  BY Zenon DEF FoldLeft, MapThenFoldSet
<1> HIDE DEF step
<1>7. PICK h \in [SUBSET (1 .. n) -> T] : Recursion(h, c, step, n)
  <2> HIDE DEF it, Is
  <2> QED BY <1>1, <1>2, <1>4, SubsetRecursion
<1>8. Is(h)
  <2>1. ASSUME NEW s \in SUBSET (1 .. n), s # {}
        PROVE  h[s] = DragTo(h[s \ {Max(s)}], path[Max(s)])
    <3>1. Max(s) \in 1 .. n /\ s \ {Max(s)} \in SUBSET (1 .. n)
      BY <1>1, <2>1, MaxInside
    <3>2. h[s] = step[<<h[s \ {Max(s)}], Max(s)>>]
      BY <1>7, <2>1 DEF Recursion
    <3> QED BY <1>5, <3>1, <3>2
  <2>2. h[{}] = c
    BY <1>7 DEF Recursion
  <2> QED BY <1>1, <2>1, <2>2
<1>9. Is(it)
  BY <1>8
<1>10. Follows(it, c, step, T, n)
  <2> SUFFICES ASSUME NEW s \in SUBSET (1 .. n), s # {}, it[s \ {Max(s)}] \in T
               PROVE  it[s] = step[<<it[s \ {Max(s)}], Max(s)>>]
    BY <1>1, <1>9 DEF Follows
  <2>1. Max(s) \in 1 .. n
    BY <1>1, MaxInside
  <2>2. it[s] = DragTo(it[s \ {Max(s)}], path[Max(s)])
    BY <1>1, <1>9
  <2> QED BY <1>5, <2>1, <2>2
<1> HIDE DEF it, Is
<1>11. it[1 .. n] \in T
  <2>1. \A k \in 0 .. n : it[1 .. k] \in T
    BY <1>1, <1>2, <1>4, <1>10, FoldPrefixes
  <2> QED BY <1>1, <2>1
<1> QED
  BY <1>1, <1>6, <1>11 DEF T

\* mousefunc_client_move moves a client, along any path.
LEMMA MouseMoveShifts ==
  ASSUME NEW c \in Client, NEW path \in Seq(Int \X Int)
  PROVE  Shifted(c, MouseMove(c, path))
<1> DEFINE d == FoldLeft(DragTo, c, path)
<1>1. Shifted(c, d) /\ d \in Client
  BY DragsShift DEF Shifted
<1> HIDE DEF d
<1>2. d.geom \in Rects /\ [d EXCEPT !.geom = d.geom] = d
  BY <1>1 DEF Client
<1>3. Shifted(d, Move(d))
  BY <1>1, <1>2, MoveShifts
<1>4. Shifted(c, Move(d))
  BY <1>1, <1>3, ShiftedTrans
<1> QED
  BY <1>4, ShiftedRefl DEF MouseMove, d

\* client_resize with reset takes the maximized flags away.
LEMMA ResetType ==
  ASSUME NEW c \in Client
  PROVE  /\ Reset(c) \in Client /\ Seen(Reset(c))
         /\ Reset(c).flags = c.flags \ MAXIMIZED
         /\ Alike(Reset(c), c, {"flags", "atoms"})
<1> DEFINE b == [c EXCEPT !.flags = @ \ MAXIMIZED]
<1>1. b \in Client /\ b.flags = c.flags \ MAXIMIZED /\ Alike(b, c, {"flags"})
  BY DEF Client, Alike
<1>2. Reset(c) = SetNetWmState(b)
  BY DEF Reset
<1> HIDE DEF b
<1>3. /\ SetNetWmState(b) \in Client /\ Seen(SetNetWmState(b))
      /\ Alike(SetNetWmState(b), b, {"atoms"})
  BY <1>1, StateType
<1> QED
  BY <1>1, <1>2, <1>3 DEF Alike

\* d is c with another size, not maximised
Sized(c, d) ==
  /\ d \in Client /\ Seen(d)
  /\ d.flags = c.flags \ MAXIMIZED
  /\ d.xborder = d.bwidth
  /\ Alike(d, c, {"geom", "xgeom", "flags", "atoms", "xborder"})
  /\ \E g \in Rects : d.geom = ApplySizeHints(c.hint, g)

\* client_resize with reset set
LEMMA ResetResizes ==
  ASSUME NEW c \in Client, NEW g \in Rects
  PROVE  Sized(c, Resize(Reset([c EXCEPT !.geom = g])))
<1> DEFINE b == [c EXCEPT !.geom = g]
           r == Reset(b)
           d == Resize(r)
<1>1. b \in Client /\ b.geom = g /\ Alike(b, c, {"geom"})
  BY DEF Client, Alike
<1> HIDE DEF b
<1>2. /\ r \in Client /\ Seen(r) /\ r.flags = b.flags \ MAXIMIZED
      /\ Alike(r, b, {"flags", "atoms"})
  BY <1>1, ResetType
<1> HIDE DEF r
<1>3. /\ d \in Client /\ d.geom = ApplySizeHints(r.hint, r.geom)
      /\ d.xborder = r.bwidth /\ Alike(d, r, {"geom", "xgeom", "xborder"})
  BY <1>2, ResizeType
<1> HIDE DEF d
<1>4. r.hint = c.hint /\ r.geom = g /\ b.flags = c.flags
  BY <1>1, <1>2 DEF Alike
<1>5. d.flags = c.flags \ MAXIMIZED /\ d.atoms = r.atoms /\ d.xborder = d.bwidth
      /\ d.flags = r.flags
  BY <1>2, <1>3, <1>4 DEF Alike
<1>6. Seen(d)
  BY <1>2, <1>5 DEF Seen
<1>7. Alike(d, c, {"geom", "xgeom", "flags", "atoms", "xborder"})
  BY <1>1, <1>2, <1>3 DEF Alike
<1>8. Sized(c, d)
  BY <1>3, <1>4, <1>5, <1>6, <1>7 DEF Sized
<1> QED
  BY <1>8 DEF b, r, d

\* A client that was only resized has the border it had and, if it was not in
\* fullscreen, its new size to come back to.
LEMMA SizedSettles ==
  ASSUME NEW c \in Client, NEW d, Sized(c, d)
  PROVE  /\ Changed(c, d) /\ d.records = c.records
         /\ Bordered(c) => Bordered(d)
         /\ "FULLSCREEN" \notin c.flags => Normally(c, d)
<1>1. PICK g \in Rects : d.geom = ApplySizeHints(c.hint, g)
  BY DEF Sized
<1>2. /\ d \in Client /\ d.hint = c.hint /\ d.group = c.group
      /\ d.flags = c.flags \ MAXIMIZED /\ d.bwidth = c.bwidth
      /\ d.xborder = c.bwidth /\ Seen(d) /\ d.records = c.records
  BY DEF Sized, Alike
<1>3. Bordered(c) => Bordered(d)
  BY <1>2 DEF Bordered, MAXIMIZED
<1>4. Changed(c, d)
  BY <1>2 DEF Changed, MAXIMIZED
<1> QED
  BY <1>1, <1>2, <1>3, <1>4, ResizeNormally

\* kbfunc_client_resize resizes a client.
LEMMA KeyResizeSizes ==
  ASSUME NEW c \in Client, NEW d \in Int \X Int, "FREEZE" \notin c.flags
  PROVE  Sized(c, KeyResize(c, d))
<1> DEFINE nw == Larger(c.geom.w + d[1], 1)
           nh == Larger(c.geom.h + d[2], 1)
           g  == [c.geom EXCEPT !.w = nw, !.h = nh]
<1>1. c.geom \in Rects
  BY DEF Client
<1>2. nw \in Int /\ nh \in Int
  BY <1>1 DEF Rects, Larger
<1>3. KeyResize(c, d) = Resize(Reset([c EXCEPT !.geom = g]))
  BY DEF KeyResize, Client, Rects
<1> HIDE DEF nw, nh
<1>4. g \in Rects
  BY <1>1, <1>2 DEF Rects
<1> HIDE DEF g
<1> QED
  BY <1>3, <1>4, ResetResizes

\* Sizing twice is sizing once more
LEMMA SizedTrans ==
  ASSUME NEW c, NEW d, NEW e, Sized(c, d), Sized(d, e)
  PROVE  Sized(c, e)
<1>1. d.hint = c.hint
  BY DEF Sized, Alike
<1>2. e.flags = c.flags \ MAXIMIZED
  BY DEF Sized
<1>3. Alike(e, c, {"geom", "xgeom", "flags", "atoms", "xborder"})
  BY DEF Sized, Alike
<1> QED
  BY <1>1, <1>2, <1>3 DEF Sized

\* mousefunc_client_resize resizes a client, along any path.
LEMMA MouseResizeSizes ==
  ASSUME NEW c \in Client, NEW path \in Seq(Int \X Int), "FREEZE" \notin c.flags
  PROVE  Sized(c, MouseResize(c, path))
<1>1. ASSUME NEW d \in Client PROVE Sized(d, Resize(Reset(d)))
  <2>1. d.geom \in Rects /\ [d EXCEPT !.geom = d.geom] = d
    BY DEF Client
  <2>2. Sized(d, Resize(Reset([d EXCEPT !.geom = d.geom])))
    BY <2>1, ResetResizes
  <2> QED BY <2>1, <2>2
<1>2. CASE path = <<>>
  BY <1>1, <1>2 DEF MouseResize
<1>3. CASE path # <<>>
  <2> DEFINE p == Last(path)
             o == <<c.geom.x, c.geom.y>>
             g == SweepCalc(c.hint, c.geom, c.bwidth, o[1], o[2], p[1], p[2])
             d == SweepTo(c, o, p)
  <2>1. p \in Int \X Int
    <3>1. Len(path) \in 1 .. Len(path)
      BY <1>3
    <3> QED BY <3>1 DEF Last
  <2>2. d = Resize(Reset([c EXCEPT !.geom = g]))
    BY DEF SweepTo
  <2>3. g \in Rects
    <3>1. /\ c.hint \in Hints /\ c.geom \in Rects /\ c.bwidth \in Int
          /\ o[1] \in Int /\ o[2] \in Int
      BY RectType DEF Client
    <3>2. p[1] \in Int /\ p[2] \in Int
      BY <2>1
    <3> HIDE DEF o, p
    <3> QED BY <3>1, <3>2, SweepType
  <2>4. MouseResize(c, path) = Resize(Reset(d))
    BY <1>3 DEF MouseResize
  <2> HIDE DEF g, d, p, o
  <2>5. Sized(c, d)
    BY <2>2, <2>3, ResetResizes
  <2>6. Sized(d, Resize(Reset(d)))
    BY <1>1, <2>5 DEF Sized
  <2> QED BY <2>4, <2>5, <2>6, SizedTrans
<1> QED
  BY <1>2, <1>3

\* The shape of what client_expand looks for between the other windows
LEMMA ExpandHorizType ==
  ASSUME NEW c \in Client, NEW g \in Rects, NEW rects \in Seq(Rects)
  PROVE  ExpandHoriz(c, g, rects) \in Rects
<1> DEFINE n == Len(rects)
           T == Int \X Int
           from == <<Work.x, Work.x + Work.w - 2 * c.bwidth>>
           Narrow(e, r) ==
             LET x   == r.x + 2 * c.bwidth
                 end == r.x + r.w
             IN IF r.y + r.h <= g.y \/ r.y >= g.y + g.h THEN e
                ELSE IF end <= g.x /\ end >= e[1]
                  THEN <<end + 2 * c.bwidth, e[2]>>
                ELSE IF g.x + g.w <= x /\ e[2] >= x
                  THEN <<e[1], x - 4 * c.bwidth>>
                ELSE e
           step == [p \in T \X (1 .. n) |-> Narrow(p[1], rects[p[2]])]
           Is(f) == f = [s \in SUBSET DOMAIN rects |->
                           IF s = {} THEN from
                           ELSE Narrow(f[s \ {Max(s)}], rects[Max(s)])]
           it == CHOOSE f : Is(f)
           at == it[DOMAIN rects]
<1>1. n \in Nat /\ DOMAIN rects = 1 .. n
  OBVIOUS
<1>2. from \in T
  <2>1. /\ Work.x \in Int /\ Work.y \in Int /\ Work.w \in Int /\ Work.h \in Int
        /\ c.bwidth \in Int
    BY WorkType, RectType DEF Client
  <2> QED BY <2>1
<1>3. \A e \in T, i \in 1 .. n : Narrow(e, rects[i]) \in T
  <2> SUFFICES ASSUME NEW e \in T, NEW i \in 1 .. n
               PROVE  Narrow(e, rects[i]) \in T
    OBVIOUS
  <2> DEFINE r == rects[i]
  <2>1. r \in Rects
    OBVIOUS
  <2> HIDE DEF r
  <2>2. /\ r.x \in Int /\ r.y \in Int /\ r.w \in Int /\ r.h \in Int
        /\ g.x \in Int /\ g.y \in Int /\ g.w \in Int /\ g.h \in Int
        /\ c.bwidth \in Int /\ e[1] \in Int /\ e[2] \in Int
    BY <2>1, RectType DEF Client
  <2>3. /\ e \in T /\ <<r.x + r.w + 2 * c.bwidth, e[2]>> \in T
        /\ <<e[1], (r.x + 2 * c.bwidth) - 4 * c.bwidth>> \in T
    <3>1. \A x, w, b \in Int : x + w + 2 * b \in Int /\ (x + 2 * b) - 4 * b \in Int
      OBVIOUS
    <3>2. /\ r.x + r.w + 2 * c.bwidth \in Int
          /\ (r.x + 2 * c.bwidth) - 4 * c.bwidth \in Int
      BY <2>2, <3>1, Zenon
    <3> QED BY <2>2, <3>2
  <2>4. Narrow(e, r) \in T
    <3> HIDE DEF T
    <3> QED BY <2>3, Zenon
  <2> QED BY <2>4 DEF r
<1>4. ExpandHoriz(c, g, rects) = [g EXCEPT !.x = at[1], !.w = at[2] - at[1]]
  BY Zenon DEF ExpandHoriz, FoldLeft, MapThenFoldSet
<1> HIDE DEF n, T, from, Narrow
<1>5. step \in [T \X (1 .. n) -> T]
  BY <1>3
<1>6. \A e \in T, i \in 1 .. n : step[<<e, i>>] = Narrow(e, rects[i])
  OBVIOUS
<1> HIDE DEF step
<1>7. PICK h \in [SUBSET (1 .. n) -> T] : Recursion(h, from, step, n)
  <2> HIDE DEF it, Is
  <2> QED BY <1>1, <1>2, <1>5, SubsetRecursion
<1>8. Is(h)
  <2>1. ASSUME NEW s \in SUBSET (1 .. n), s # {}
        PROVE  h[s] = Narrow(h[s \ {Max(s)}], rects[Max(s)])
    <3>1. Max(s) \in 1 .. n /\ s \ {Max(s)} \in SUBSET (1 .. n)
      BY <1>1, <2>1, MaxInside
    <3>2. h[s] = step[<<h[s \ {Max(s)}], Max(s)>>]
      BY <1>7, <2>1 DEF Recursion
    <3> QED BY <1>6, <3>1, <3>2
  <2>2. h[{}] = from
    BY <1>7 DEF Recursion
  <2> QED BY <1>1, <2>1, <2>2
<1>9. Is(it)
  BY <1>8
<1>10. Follows(it, from, step, T, n)
  <2> SUFFICES ASSUME NEW s \in SUBSET (1 .. n), s # {}, it[s \ {Max(s)}] \in T
               PROVE  it[s] = step[<<it[s \ {Max(s)}], Max(s)>>]
    BY <1>1, <1>9 DEF Follows
  <2>1. Max(s) \in 1 .. n
    BY <1>1, MaxInside
  <2>2. it[s] = Narrow(it[s \ {Max(s)}], rects[Max(s)])
    BY <1>1, <1>9
  <2> QED BY <1>6, <2>1, <2>2
<1> HIDE DEF it, Is
<1>11. it[1 .. n] \in T
  <2>1. \A k \in 0 .. n : it[1 .. k] \in T
    BY <1>1, <1>2, <1>5, <1>10, FoldPrefixes
  <2> QED BY <1>1, <2>1
<1>12. at[1] \in Int /\ at[2] - at[1] \in Int
  BY <1>1, <1>11 DEF T
<1> HIDE DEF at
<1> QED
  BY <1>4, <1>12 DEF Rects

\* client_expand_vert leaves a rectangle, past any rectangles.
LEMMA ExpandVertType ==
  ASSUME NEW c \in Client, NEW g \in Rects, NEW rects \in Seq(Rects)
  PROVE  ExpandVert(c, g, rects) \in Rects
<1> DEFINE n == Len(rects)
           T == Int \X Int
           from == <<Work.y, Work.y + Work.h - 2 * c.bwidth>>
           Narrow(e, r) ==
             LET y   == r.y + 2 * c.bwidth
                 end == r.y + r.h
             IN IF r.x + r.w <= g.x \/ r.x >= g.x + g.w THEN e
                ELSE IF end <= g.y /\ end >= e[1] THEN <<end, e[2]>>
                ELSE IF g.y + g.h <= y /\ e[2] >= y THEN <<e[1], y>>
                ELSE e
           step == [p \in T \X (1 .. n) |-> Narrow(p[1], rects[p[2]])]
           Is(f) == f = [s \in SUBSET DOMAIN rects |->
                           IF s = {} THEN from
                           ELSE Narrow(f[s \ {Max(s)}], rects[Max(s)])]
           it == CHOOSE f : Is(f)
           at == it[DOMAIN rects]
<1>1. n \in Nat /\ DOMAIN rects = 1 .. n
  OBVIOUS
<1>2. from \in T
  <2>1. /\ Work.x \in Int /\ Work.y \in Int /\ Work.w \in Int /\ Work.h \in Int
        /\ c.bwidth \in Int
    BY WorkType, RectType DEF Client
  <2> QED BY <2>1
<1>3. \A e \in T, i \in 1 .. n : Narrow(e, rects[i]) \in T
  <2> SUFFICES ASSUME NEW e \in T, NEW i \in 1 .. n
               PROVE  Narrow(e, rects[i]) \in T
    OBVIOUS
  <2> DEFINE r == rects[i]
  <2>1. r \in Rects
    OBVIOUS
  <2> HIDE DEF r
  <2>2. /\ r.x \in Int /\ r.y \in Int /\ r.w \in Int /\ r.h \in Int
        /\ g.x \in Int /\ g.y \in Int /\ g.w \in Int /\ g.h \in Int
        /\ c.bwidth \in Int /\ e[1] \in Int /\ e[2] \in Int
    BY <2>1, RectType DEF Client
  <2>3. /\ e \in T /\ <<r.y + r.h, e[2]>> \in T
        /\ <<e[1], r.y + 2 * c.bwidth>> \in T
    BY <2>2, SMTT(30)
  <2>4. Narrow(e, r) \in T
    <3> HIDE DEF T
    <3> QED BY <2>3
  <2> QED BY <2>4 DEF r
<1>4. ExpandVert(c, g, rects) = [g EXCEPT !.y = at[1], !.h = at[2] - at[1]]
  BY Zenon DEF ExpandVert, FoldLeft, MapThenFoldSet
<1> HIDE DEF n, T, from, Narrow
<1>5. step \in [T \X (1 .. n) -> T]
  BY <1>3
<1>6. \A e \in T, i \in 1 .. n : step[<<e, i>>] = Narrow(e, rects[i])
  OBVIOUS
<1> HIDE DEF step
<1>7. PICK h \in [SUBSET (1 .. n) -> T] : Recursion(h, from, step, n)
  <2> HIDE DEF it, Is
  <2> QED BY <1>1, <1>2, <1>5, SubsetRecursion
<1>8. Is(h)
  <2>1. ASSUME NEW s \in SUBSET (1 .. n), s # {}
        PROVE  h[s] = Narrow(h[s \ {Max(s)}], rects[Max(s)])
    <3>1. Max(s) \in 1 .. n /\ s \ {Max(s)} \in SUBSET (1 .. n)
      BY <1>1, <2>1, MaxInside
    <3>2. h[s] = step[<<h[s \ {Max(s)}], Max(s)>>]
      BY <1>7, <2>1 DEF Recursion
    <3> QED BY <1>6, <3>1, <3>2
  <2>2. h[{}] = from
    BY <1>7 DEF Recursion
  <2> QED BY <1>1, <2>1, <2>2
<1>9. Is(it)
  BY <1>8
<1>10. Follows(it, from, step, T, n)
  <2> SUFFICES ASSUME NEW s \in SUBSET (1 .. n), s # {}, it[s \ {Max(s)}] \in T
               PROVE  it[s] = step[<<it[s \ {Max(s)}], Max(s)>>]
    BY <1>1, <1>9 DEF Follows
  <2>1. Max(s) \in 1 .. n
    BY <1>1, MaxInside
  <2>2. it[s] = Narrow(it[s \ {Max(s)}], rects[Max(s)])
    BY <1>1, <1>9
  <2> QED BY <1>6, <2>1, <2>2
<1> HIDE DEF it, Is
<1>11. it[1 .. n] \in T
  <2>1. \A k \in 0 .. n : it[1 .. k] \in T
    BY <1>1, <1>2, <1>5, <1>10, FoldPrefixes
  <2> QED BY <1>1, <2>1
<1>12. at[1] \in Int /\ at[2] - at[1] \in Int
  BY <1>1, <1>11 DEF T
<1> HIDE DEF at
<1> QED
  BY <1>4, <1>12 DEF Rects

\* client_expand keeps group, records, hints and what it does not toggle, and does
\* nothing to a frozen client.  A border that was not asked for comes with what
\* is expanded no more.
LEMMA ExpandType ==
  ASSUME NEW c \in Client, NEW rects \in Seq(Rects)
  PROVE  LET d == Expand(c, rects)
         IN /\ d \in Client /\ d.group = c.group /\ d.records = c.records
            /\ d.hint = c.hint
            /\ {"STICKY", "IGNORE"} \cap d.flags = {"STICKY", "IGNORE"} \cap c.flags
            /\ Seen(c) => Seen(d)
            /\ "FREEZE" \in c.flags => d = c
            /\ "EXPANDED" \notin c.flags \/ "BORDER" \in c.flags =>
                 (Bordered(c) => Bordered(d))
<1>1. CASE "FREEZE" \in c.flags
  BY <1>1 DEF Expand
<1>2. CASE "FREEZE" \notin c.flags
  <2> DEFINE on == "EXPANDED" \notin c.flags
             h == ExpandHoriz(c, c.geom, rects)
             g == ExpandVert(c, h, rects)
             s == IF on THEN c.geom ELSE c.save
             t == IF on THEN g ELSE c.save
             f == IF on THEN c.flags \cup {"EXPANDED"} ELSE c.flags \ {"EXPANDED"}
             b == IF on THEN c.bwidth ELSE BWidth
             e == [c EXCEPT !.save = s, !.geom = t, !.flags = f, !.bwidth = b]
             k == [e EXCEPT !.geom = ApplySizeHints(e.hint, @)]
             d == Resize(k)
  <2>1. c.geom \in Rects /\ c.save \in Rects /\ c.bwidth \in Int
    BY DEF Client
  <2>2. h \in Rects
    BY <2>1, ExpandHorizType
  <2>3. g \in Rects
    <3> HIDE DEF h
    <3> QED BY <2>2, ExpandVertType
  <2>4. f \in SUBSET GeomFlags
    BY DEF Client, GeomFlags
  <2>5. /\ {"STICKY", "IGNORE"} \cap f = {"STICKY", "IGNORE"} \cap c.flags
        /\ StateAtoms(f) = StateAtoms(c.flags)
    BY DEF StateAtoms, NetStates, MAXIMIZED
  <2>6. Expand(c, rects) = HintedResize(e)
    <3> HIDE DEF g, h
    <3>1. CASE on
      BY <1>2, <3>1 DEF Expand, Client, g, h
    <3>2. CASE ~on
      BY <1>2, <3>2 DEF Expand, Client
    <3> QED BY <3>1, <3>2
  <2>7. s \in Rects /\ t \in Rects /\ b \in Int
    <3> HIDE DEF g
    <3> QED BY <2>1, <2>3, BWidthType
  <2> HIDE DEF f, s, t, b
  <2>8. /\ e \in Client /\ e.flags = f /\ e.bwidth = b
        /\ Alike(e, c, {"save", "geom", "flags", "bwidth"})
    BY <2>4, <2>7 DEF Client, Alike
  <2> HIDE DEF e
  <2>9. k \in Client /\ HintedResize(e) = d /\ Alike(k, e, {"geom"})
    BY <2>8, HintedType
  <2> HIDE DEF k
  <2>10. d \in Client /\ d.xborder = k.bwidth /\ Alike(d, k, {"geom", "xgeom", "xborder"})
    BY <2>9, ResizeType
  <2> HIDE DEF d
  <2>11. /\ d.flags = f /\ d.atoms = c.atoms /\ d.group = c.group
         /\ d.records = c.records /\ d.hint = c.hint
         /\ d.bwidth = b /\ d.xborder = b
    BY <2>8, <2>9, <2>10 DEF Alike
  <2>12. Seen(c) => Seen(d)
    BY <2>5, <2>11 DEF Seen
  <2>13. ASSUME "EXPANDED" \notin c.flags \/ "BORDER" \in c.flags, Bordered(c)
         PROVE  Bordered(d)
    <3>1. /\ "FULLSCREEN" \in f <=> "FULLSCREEN" \in c.flags
          /\ "BORDER" \in f <=> "BORDER" \in c.flags
      BY DEF f
    <3>2. b = IF "EXPANDED" \notin c.flags THEN c.bwidth ELSE BWidth
      BY DEF b
    <3> QED BY <2>11, <2>13, <3>1, <3>2 DEF Bordered
  <2> QED BY <1>2, <2>5, <2>6, <2>9, <2>10, <2>11, <2>12, <2>13
<1> QED
  BY <1>1, <1>2

----------------------------------------------------------------------------
(* Commands that change several windows, and what an application asks for. *)

\* xev_handle_configurerequest changes geometry and border.
LEMMA ConfigureType ==
  ASSUME NEW c \in Client, NEW mask \in Masks, NEW g \in Rects, NEW b \in {-1, 0}
  PROVE  LET d == Configure(c, mask, g, b)
         IN /\ d \in Client
            /\ Alike(d, c, {"geom", "xgeom", "bwidth", "xborder"})
            /\ b = -1 => d.bwidth = c.bwidth /\ d.xborder = c.xborder
            /\ d.geom.w \in {c.geom.w, g.w} /\ d.geom.h \in {c.geom.h, g.h}
<1> DEFINE Masked(new, old) == [f \in DOMAIN old |-> IF f \in mask THEN new[f]
                                                               ELSE old[f]]
           n  == Masked(g, c.geom)
           bw == IF b = -1 THEN c.bwidth ELSE b
           nx == IF n.x = 0 /\ n.w >= View.w THEN n.x - bw ELSE n.x
           ny == IF n.y = 0 /\ n.h >= View.h THEN n.y - bw ELSE n.y
           r  == [n EXCEPT !.x = nx, !.y = ny]
           xg == Masked(r, c.xgeom)
           xb == IF b = -1 THEN c.xborder ELSE b
           d  == [c EXCEPT !.geom = r, !.xgeom = xg, !.bwidth = bw, !.xborder = xb]
<1>1. \A s, t \in Rects : Masked(s, t) \in Rects
  BY DEF Rects
<1>2. c.geom \in Rects /\ c.xgeom \in Rects
  BY DEF Client
<1>3. n \in Rects
  BY <1>1, <1>2
<1>4. n.w \in {c.geom.w, g.w} /\ n.h \in {c.geom.h, g.h}
  BY <1>2 DEF Rects
<1>5. Configure(c, mask, g, b) = d
  BY <1>2, <1>3 DEF Configure, Client
<1> HIDE DEF n
<1>6. bw \in Int /\ xb \in Int
  BY DEF Client
<1>7. nx \in Int /\ ny \in Int
  <2> HIDE DEF bw
  <2>1. n.x \in Int /\ n.y \in Int
    BY <1>3, RectType
  <2> QED BY <1>6, <2>1
<1> HIDE DEF nx, ny
<1>8. r \in Rects /\ r.w = n.w /\ r.h = n.h
  BY <1>3, <1>7 DEF Rects
<1> HIDE DEF r
<1>9. xg \in Rects
  BY <1>1, <1>2, <1>8
<1> HIDE DEF xg, Masked
<1>10. /\ d \in Client /\ d.geom = r /\ d.bwidth = bw /\ d.xborder = xb
       /\ Alike(d, c, {"geom", "xgeom", "bwidth", "xborder"})
  <2> HIDE DEF bw, xb
  <2> QED BY <1>6, <1>8, <1>9 DEF Client, Alike
<1> HIDE DEF d
<1> QED
  BY <1>4, <1>5, <1>8, <1>10

\* A size that fits the hints is what the client gets.
LEMMA ConfigureNormally ==
  ASSUME NEW c \in Client, NEW mask \in Masks, NEW g \in Rects, NEW b \in {-1, 0},
         Steady(c.hint) => Fitting(c.hint, g)
  PROVE  Normally(c, Configure(c, mask, g, b))
<1> DEFINE d == Configure(c, mask, g, b)
<1>1. /\ d \in Client
      /\ Alike(d, c, {"geom", "xgeom", "bwidth", "xborder"})
      /\ d.geom.w \in {c.geom.w, g.w} /\ d.geom.h \in {c.geom.h, g.h}
  BY ConfigureType
<1> HIDE DEF d
<1>2. d.hint = c.hint /\ d.flags = c.flags /\ d.save = c.save /\ d.full = c.full
  BY <1>1 DEF Alike
<1>3. Steady(c.hint) =>
        /\ d.geom.w = c.geom.w \/ FitsW(c.hint, d.geom.w)
        /\ d.geom.h = c.geom.h \/ FitsH(c.hint, d.geom.h)
  BY <1>1 DEF Fitting
<1>4. Normally(c, d)
  BY <1>1, <1>2, <1>3, MoveNormally
<1> QED
  BY <1>4 DEF d

\* screen geometry is recorded of sticky clients alone.
LEMMA RecordType ==
  ASSUME NEW c \in Client, NEW g \in Groups
  PROVE  LET d == RecordGeom(c, g)
         IN /\ d \in Client /\ Alike(d, c, {"records"})
            /\ d.records = IF "STICKY" \in c.flags
                             THEN [c.records EXCEPT ![g] = c.geom] ELSE c.records
<1> DEFINE r == [c.records EXCEPT ![g] = c.geom]
           d == [c EXCEPT !.records = r]
<1>1. r \in Records
  BY DEF Client, Records
<1>2. "STICKY" \in c.flags => RecordGeom(c, g) = d
  BY DEF RecordGeom, Client
<1> HIDE DEF r
<1>3. d \in Client /\ Alike(d, c, {"records"}) /\ d.records = r
  BY <1>1 DEF Client, Alike
<1>4. "STICKY" \notin c.flags => RecordGeom(c, g) = c
  BY DEF RecordGeom
<1>5. Alike(c, c, {"records"})
  BY DEF Alike
<1> QED
  BY <1>2, <1>3, <1>4, <1>5 DEF r

\* The near edge of a snap is an integer.
LEMMA SnapLowType ==
  ASSUME NEW lo \in Int, NEW size \in Int, NEW edge \in Int,
         NEW spans \in SUBSET (Int \X Int)
  PROVE  SnapLow(lo, size, edge, spans) \in Int
<1> DEFINE at == lo - 1
           Ends(p) == {q \in {p[1] + p[2], p[1]} : q <= at}
                        \cup {q - size : q \in {r \in {p[1] + p[2], p[1]} :
                                                   r <= at + size}}
           S == {edge} \cup UNION {Ends(p) : p \in spans}
           b == IF edge < at THEN at ELSE edge
<1>1. b \in Int /\ at \in Int /\ edge <= b /\ at <= b
  OBVIOUS
<1>2. ASSUME NEW p \in spans, NEW y \in Ends(p) PROVE y \in Int /\ y <= at
  <2>1. p[1] \in Int /\ p[2] \in Int
    OBVIOUS
  <2> QED BY <1>1, <1>2, <2>1
<1> HIDE DEF Ends, at, b
<1>3. S \subseteq Int /\ S # {} /\ \A y \in S : y <= b
  <2>1. ASSUME NEW y \in S PROVE y \in Int /\ y <= b
    <3>1. CASE y = edge
      BY <1>1, <3>1
    <3>2. ASSUME NEW p \in spans, y \in Ends(p) PROVE y \in Int /\ y <= b
      BY <1>1, <1>2, <3>2
    <3> QED BY <2>1, <3>1, <3>2
  <2>2. edge \in S
    OBVIOUS
  <2> QED BY <2>1, <2>2
<1>4. SnapLow(lo, size, edge, spans) = Max(S)
  BY Zenon DEF SnapLow, at, Ends
<1> HIDE DEF S
<1>5. Max(S) \in S
  BY <1>1, <1>3, GreatestInt
<1> QED
  BY <1>3, <1>4, <1>5

\* The far edge of a snap is an integer.
LEMMA SnapHighType ==
  ASSUME NEW lo \in Int, NEW size \in Int, NEW edge \in Int,
         NEW spans \in SUBSET (Int \X Int)
  PROVE  SnapHigh(lo, size, edge, spans) \in Int
<1> DEFINE at == lo + 1
           Ends(p) == {q \in {p[1] + p[2], p[1]} : q >= at + size}
                        \cup {q + size : q \in {r \in {p[1] + p[2], p[1]} :
                                                   r >= at}}
           S == {edge} \cup UNION {Ends(p) : p \in spans}
           b == IF edge < at + size THEN edge ELSE at + size
<1>1. b \in Int /\ at \in Int /\ b <= edge /\ b <= at + size
  OBVIOUS
<1>2. ASSUME NEW p \in spans, NEW y \in Ends(p) PROVE y \in Int /\ at + size <= y
  <2>1. p[1] \in Int /\ p[2] \in Int
    OBVIOUS
  <2> QED BY <1>1, <1>2, <2>1
<1>3. at + size \in Int
  BY <1>1
<1> HIDE DEF Ends, at, b
<1>4. S \subseteq Int /\ S # {} /\ \A y \in S : b <= y
  <2>1. ASSUME NEW y \in S PROVE y \in Int /\ b <= y
    <3>1. CASE y = edge
      BY <1>1, <3>1
    <3>2. ASSUME NEW p \in spans, y \in Ends(p) PROVE y \in Int /\ b <= y
      BY <1>1, <1>2, <1>3, <3>2
    <3> QED BY <2>1, <3>1, <3>2
  <2>2. edge \in S
    OBVIOUS
  <2> QED BY <2>1, <2>2
<1>5. SnapHigh(lo, size, edge, spans) = Min(S) - size
  BY Zenon DEF SnapHigh, at, Ends
<1> HIDE DEF S
<1>6. Min(S) \in Int
  BY <1>1, <1>4, LeastInt
<1> QED
  BY <1>5, <1>6

----------------------------------------------------------------------------
(* The invariant.                                                          *)

GTypeOK ==
  /\ cc \in [Windows -> Client]
  /\ members \in [Groups -> Seq(Windows)]
  /\ current \in Groups
  /\ session \in [commands : SUBSET STRING, placements : Nat, mixtures : Nat]
  /\ normal \in [Windows -> Rects]
  /\ placed \in [Windows -> Records]
  /\ shared \subseteq Windows /\ forced \subseteq Windows

\* The clients a tile shares the output with.
LEMMA OthersType ==
  ASSUME GTypeOK, NEW w \in Windows
  PROVE  /\ Others(w) \in Seq(Windows)
         /\ Tiled(w) \in Seq(Windows)
         /\ OtherRects(w) \in Seq(Rects)
         /\ ToSet(Others(w)) \subseteq Windows
<1>1. members[cc[w].group] \in Seq(Windows)
  BY DEF GTypeOK, Client
<1>2. Others(w) \in Seq(Windows)
  <2>1. Others(w) \in Seq(Windows \cap (Windows \ {w}))
    BY <1>1, KeepType DEF Others
  <2> QED BY <2>1
<1>3. Tiled(w) \in Seq(Windows)
  <2>1. Tiled(w) \in Seq(Windows \cap {v \in Windows : "IGNORE" \notin cc[v].flags})
    BY <1>2, KeepType DEF Tiled
  <2> QED BY <2>1
<1>4. OtherRects(w) \in Seq(Rects)
  <2> DEFINE o == Others(w)
  <2>1. \A i \in 1 .. Len(o) : cc[o[i]].geom \in Rects
    BY <1>2 DEF GTypeOK, Client
  <2>2. OtherRects(w) = [i \in 1 .. Len(o) |-> cc[o[i]].geom]
    BY <1>2 DEF OtherRects
  <2>3. Len(o) \in Nat
    BY <1>2
  <2> HIDE DEF o
  <2> QED BY <2>1, <2>2, <2>3
<1>5. ToSet(Others(w)) \subseteq Windows
  BY <1>2 DEF ToSet
<1> QED
  BY <1>2, <1>3, <1>4, <1>5

\* client_snap: the window is moved, and some others have their geometry taken
\* from the server
LEMMA SnapSettles ==
  ASSUME GTypeOK, NEW w \in Windows, NEW dir \in {"up", "down", "left", "right"}
  PROVE  LET a == Snap(w, dir)
         IN /\ a \in [Windows -> Client]
            /\ \A v \in Windows : Settled(cc[v], a[v])
            /\ \A v \in Windows \ {w} : a[v].records = cc[v].records
            /\ a[w].records = IF "STICKY" \in cc[w].flags
                 THEN [cc[w].records EXCEPT ![current] = a[w].geom]
                 ELSE cc[w].records
<1> DEFINE others == ToSet(Others(w))
           ext == [v \in Windows |->
                     IF v = w \/ (dir # "up" /\ v \in others) THEN DataExtend(cc[v])
                     ELSE cc[v]]
           g == ext[w].geom
           beside == {v \in others :
                       IF dir \in {"up", "down"}
                         THEN Overlap(g.x - 1, g.w + 2, ext[v].geom.x, ext[v].geom.w)
                         ELSE Overlap(g.y - 1, g.h + 2, ext[v].geom.y, ext[v].geom.h)}
           rows == {<<ext[v].geom.y, ext[v].geom.h>> : v \in beside}
           cols == {<<ext[v].geom.x, ext[v].geom.w>> : v \in beside}
           to == CASE dir = "up"    -> [g EXCEPT !.y = SnapLow(@, g.h, Work.y, rows)]
                   [] dir = "down"  -> [g EXCEPT !.y = SnapHigh(@, g.h, Work.y + Work.h, rows)]
                   [] dir = "left"  -> [g EXCEPT !.x = SnapLow(@, g.w, Work.x, cols)]
                   [] dir = "right" -> [g EXCEPT !.x = SnapHigh(@, g.w, Work.x + Work.w, cols)]
           m == Move([ext[w] EXCEPT !.geom = to])
           d == RecordGeom(m, current)
           a == [ext EXCEPT ![w] = d]
<1>1. others \subseteq Windows
  BY OthersType
<1>2. a = Snap(w, dir)
  BY DEF Snap
<1> HIDE DEF others
<1>3. \A v \in Windows : cc[v] \in Client
  BY DEF GTypeOK
<1>4. \A v \in Windows : Shifted(cc[v], ext[v])
  BY <1>3, ExtendShifts, ShiftedRefl
<1>5. ext = [v \in Windows |-> ext[v]]
  OBVIOUS
<1> HIDE DEF ext
<1>6. \A v \in Windows : ext[v] \in Client /\ ext[v].geom \in Rects
  BY <1>4 DEF Shifted, Client
<1>7. beside \subseteq Windows
  BY <1>1
<1> HIDE DEF beside
<1>8. rows \in SUBSET (Int \X Int) /\ cols \in SUBSET (Int \X Int)
  BY <1>6, <1>7 DEF Rects
<1>9. g \in Rects
  BY <1>6
<1> HIDE DEF rows, cols, g
<1>10. to \in Rects /\ to.w = g.w /\ to.h = g.h
  <2>1. /\ g.x \in Int /\ g.y \in Int /\ g.w \in Int /\ g.h \in Int
        /\ Work.x \in Int /\ Work.y \in Int /\ Work.w \in Int /\ Work.h \in Int
    BY <1>9, RectType, WorkType
  <2>2. CASE dir = "up"
    <3>1. SnapLow(g.y, g.h, Work.y, rows) \in Int
      BY <1>8, <2>1, SnapLowType
    <3> QED BY <1>9, <2>2, <3>1 DEF Rects
  <2>3. CASE dir = "down"
    <3>1. Work.y + Work.h \in Int
      BY <2>1
    <3>2. SnapHigh(g.y, g.h, Work.y + Work.h, rows) \in Int
      BY <1>8, <2>1, <3>1, SnapHighType
    <3> QED BY <1>9, <2>3, <3>2 DEF Rects
  <2>4. CASE dir = "left"
    <3>1. SnapLow(g.x, g.w, Work.x, cols) \in Int
      BY <1>8, <2>1, SnapLowType
    <3> QED BY <1>9, <2>4, <3>1 DEF Rects
  <2>5. CASE dir = "right"
    <3>1. Work.x + Work.w \in Int
      BY <2>1
    <3>2. SnapHigh(g.x, g.w, Work.x + Work.w, cols) \in Int
      BY <1>8, <2>1, <3>1, SnapHighType
    <3> QED BY <1>9, <2>5, <3>2 DEF Rects
  <2> QED BY <2>2, <2>3, <2>4, <2>5
<1> HIDE DEF to
<1>11. Shifted(ext[w], m)
  BY <1>6, <1>10, MoveShifts DEF g
<1> HIDE DEF m
<1>12. Shifted(cc[w], m) /\ m \in Client
  BY <1>4, <1>11, ShiftedTrans DEF Shifted
<1>13. /\ d \in Client /\ Alike(d, m, {"records"})
       /\ d.records = IF "STICKY" \in m.flags
                        THEN [m.records EXCEPT ![current] = m.geom] ELSE m.records
  BY <1>12, RecordType DEF GTypeOK
<1> HIDE DEF d
<1>14. /\ Alike(d, cc[w], {"geom", "xgeom", "extended", "records"})
       /\ d.geom = m.geom
       /\ m.flags = cc[w].flags /\ m.records = cc[w].records
  BY <1>12, <1>13 DEF Shifted, Alike
<1>15. Settled(cc[w], d)
  <2>1. ASSUME Steady(cc[w].hint)
        PROVE  /\ d.geom.w = cc[w].geom.w \/ FitsW(cc[w].hint, d.geom.w)
               /\ d.geom.h = cc[w].geom.h \/ FitsH(cc[w].hint, d.geom.h)
    BY <1>12, <1>14, <2>1 DEF Shifted, Steady, Fitting
  <2> QED BY <1>3, <1>13, <1>14, <2>1, MoveSettles
<1>16. /\ a \in [Windows -> Client] /\ a[w] = d
       /\ \A v \in Windows \ {w} : a[v] = ext[v]
  BY <1>5, <1>6, <1>13
<1> HIDE DEF a
<1>17. \A v \in Windows : Settled(cc[v], a[v])
  BY <1>3, <1>4, <1>15, <1>16, ShiftSettles
<1>18. \A v \in Windows \ {w} : a[v].records = cc[v].records
  BY <1>4, <1>16 DEF Shifted, Alike
<1> QED
  BY <1>2, <1>13, <1>14, <1>16, <1>17, <1>18

\* What tiling leaves of a client
TiledTo(c, d) ==
  /\ Changed(c, d) /\ d.records = c.records
  /\ "BORDER" \in c.flags => (Bordered(c) => Bordered(d))
  /\ "FULLSCREEN" \notin c.flags => Normally(c, d)

\* One window of client_htile or client_vtile
LEMMA TileOne ==
  ASSUME NEW c \in Client, NEW g \in Rects, NEW b \in {c.bwidth, BWidth}
  PROVE  LET d == Resize(Reset([c EXCEPT !.bwidth = b, !.geom = g]))
         IN /\ TiledTo(c, d) /\ d.geom \in Rects /\ d.bwidth = b
            /\ b = c.bwidth => (Bordered(c) => Bordered(d))
<1> DEFINE e == [c EXCEPT !.bwidth = b, !.geom = g]
           d == Resize(Reset(e))
<1>1. e \in Client /\ e.geom = g /\ e.bwidth = b /\ Alike(e, c, {"geom", "bwidth"})
  <2>1. b \in Int
    BY BWidthType DEF Client
  <2> QED BY <2>1 DEF Client, Alike
<1> HIDE DEF e
<1>2. [e EXCEPT !.geom = g] = e
  BY <1>1 DEF Client
<1>3. Sized(e, d)
  BY <1>1, <1>2, ResetResizes
<1> HIDE DEF d
<1>4. /\ d \in Client /\ Seen(d) /\ d.flags = e.flags \ MAXIMIZED
      /\ d.hint = e.hint /\ d.records = e.records /\ d.bwidth = e.bwidth
      /\ d.xborder = d.bwidth
  BY <1>3 DEF Sized, Alike
<1>5. e.flags = c.flags /\ e.hint = c.hint /\ e.records = c.records
  BY <1>1 DEF Alike
<1>6. Changed(c, d)
  BY <1>4, <1>5 DEF Changed, MAXIMIZED
<1>7. d.geom \in Rects
  BY <1>4 DEF Client
<1>8. d.flags = c.flags \ MAXIMIZED /\ d.bwidth = b /\ d.xborder = b
  BY <1>1, <1>4, <1>5
<1>9. b = c.bwidth => (Bordered(c) => Bordered(d))
  BY <1>8 DEF Bordered, MAXIMIZED
<1>10. "BORDER" \in c.flags => (Bordered(c) => Bordered(d))
  BY <1>8 DEF Bordered, MAXIMIZED
<1>11. PICK r \in Rects : d.geom = ApplySizeHints(e.hint, r)
  BY <1>3 DEF Sized
<1>12. "FULLSCREEN" \notin c.flags => Normally(c, d)
  BY <1>4, <1>5, <1>11, ResizeNormally
<1>13. TiledTo(c, d)
  BY <1>4, <1>5, <1>6, <1>10, <1>12 DEF TiledTo
<1> QED
  BY <1>7, <1>8, <1>9, <1>13 DEF d, e

\* client_htile and client_vtile change the windows tiled, and give those beside w
\* a border.
LEMMA TileType ==
  ASSUME GTypeOK, NEW w \in Windows, NEW horizontal \in BOOLEAN
  PROVE  LET a == Tile(w, horizontal)
         IN /\ a \in [Windows -> Client]
            /\ \A v \in Windows :
                 /\ Changed(cc[v], a[v]) /\ a[v].records = cc[v].records
                 /\ v \notin ToSet(Tiled(w)) \/ "BORDER" \in cc[v].flags =>
                      (Bordered(cc[v]) => Bordered(a[v]))
                 /\ v \notin {w} \cup ToSet(Tiled(w))
                      \/ "FULLSCREEN" \notin cc[v].flags => Normally(cc[v], a[v])
<1> DEFINE Face(g) == IF horizontal THEN g ELSE Turn(g)
           area == Face(Work)
           rest == Tiled(w)
           n    == Len(rest)
           c    == cc[w]
           own  == Face([Face(c.geom) EXCEPT !.x = area.x, !.y = area.y,
                                             !.w = area.w - 2 * c.bwidth])
           d    == Resize(Reset([c EXCEPT !.geom = own]))
           mh   == Face(d.geom).h + 2 * d.bwidth
           share == area.w \div n
           Put(i) == LET x == area.x + (i - 1) * share
                     IN Rect(x, area.y + mh,
                             (IF i = n THEN area.x + area.w - x ELSE share)
                               - 2 * BWidth,
                             area.h - mh - 2 * BWidth)
           at(v) == SelectInSeq(rest, LAMBDA u : u = v)
           other(v) == Resize(Reset([cc[v] EXCEPT !.bwidth = BWidth,
                                                  !.geom = Face(Put(at(v)))]))
           a == [v \in Windows |-> IF v = w THEN d
                                   ELSE IF v \notin ToSet(rest) THEN cc[v]
                                   ELSE other(v)]
<1>1. \A g \in Rects : Face(g) \in Rects
  BY DEF Turn, Rect, Rects
<1>2. /\ area \in Rects /\ rest \in Seq(Windows) /\ n \in Nat
      /\ \A v \in Windows : cc[v] \in Client /\ Changed(cc[v], cc[v])
      /\ c.geom \in Rects /\ c.bwidth \in Int
  BY <1>1, WorkType, OthersType DEF GTypeOK, Changed, Client
<1>5. \A v \in Windows : Normally(cc[v], cc[v])
  BY <1>2, SettledRefl DEF Settled
<1>3. CASE \/ n = 0
           \/ (IF horizontal THEN "VMAX" ELSE "HMAX") \in c.flags
           \/ Face(c.geom).h + 2 * c.bwidth >= area.h
  <2>1. Tile(w, horizontal) = cc
    BY <1>3 DEF Tile
  <2> QED BY <1>2, <1>5, <2>1 DEF GTypeOK
<1>4. CASE ~ \/ n = 0
             \/ (IF horizontal THEN "VMAX" ELSE "HMAX") \in c.flags
             \/ Face(c.geom).h + 2 * c.bwidth >= area.h
  <2>1. Tile(w, horizontal) = a
    BY <1>4, Zenon DEF Tile
  <2>2. own \in Rects
    <3> DEFINE f == Face(c.geom)
               g == [f EXCEPT !.x = area.x, !.y = area.y, !.w = area.w - 2 * c.bwidth]
    <3>1. f \in Rects
      BY <1>1, <1>2
    <3> HIDE DEF f, area, Face
    <3>2. g \in Rects
      <4>1. area.x \in Int /\ area.y \in Int /\ area.w \in Int
        BY <1>2, RectType
      <4>2. area.w - 2 * c.bwidth \in Int
        BY <1>2, <4>1
      <4> QED BY <3>1, <4>1, <4>2 DEF Rects
    <3> HIDE DEF g
    <3>3. Face(g) \in Rects
      BY <1>1, <3>2
    <3> QED BY <3>3 DEF g, f
  <2>3. /\ TiledTo(c, d) /\ d.geom \in Rects /\ d.bwidth \in Int
        /\ Bordered(c) => Bordered(d)
    <3> DEFINE b == c.bwidth
               e == Resize(Reset([c EXCEPT !.bwidth = b, !.geom = own]))
    <3>1. [c EXCEPT !.bwidth = b, !.geom = own] = [c EXCEPT !.geom = own]
      BY <1>2 DEF Client
    <3>2. d = e
      BY <3>1
    <3>3. c \in Client /\ b \in Int
      BY <1>2
    <3> HIDE DEF own, b, c, d
    <3>4. /\ TiledTo(c, e) /\ e.geom \in Rects /\ e.bwidth = b
          /\ Bordered(c) => Bordered(e)
      BY <2>2, <3>3, TileOne DEF b
    <3> QED BY <3>2, <3>3, <3>4
  <2> HIDE DEF d
  <2>4. mh \in Int
    <3>1. Face(d.geom) \in Rects
      BY <1>1, <2>3
    <3> HIDE DEF Face
    <3>2. Face(d.geom).h \in Int
      BY <3>1, RectType
    <3> QED BY <2>3, <3>2
  <2>5. share \in Int
    <3>1. n \in Nat \ {0} /\ area.w \in Int
      BY <1>2, <1>4, RectType
    <3> HIDE DEF n, area
    <3> QED BY <3>1
  <2> HIDE DEF mh, share
  <2>6. \A i \in Int : Put(i) \in Rects
    <3> SUFFICES ASSUME NEW i \in Int PROVE Put(i) \in Rects
      OBVIOUS
    <3> DEFINE x == area.x + (i - 1) * share
               pw == (IF i = n THEN area.x + area.w - x ELSE share) - 2 * BWidth
    <3>1. /\ area.x \in Int /\ area.y \in Int /\ area.w \in Int /\ area.h \in Int
          /\ BWidth \in Int
      <4> HIDE DEF area
      <4>1. area \in Rects /\ BWidth \in Int
        BY <1>2, BWidthType
      <4> QED BY <4>1, RectType
    <3>2. (i - 1) * share \in Int
      BY <2>5
    <3> HIDE DEF area, n
    <3>3. x \in Int
      BY <3>1, <3>2
    <3>4. Put(i) = Rect(x, area.y + mh, pw, area.h - mh - 2 * BWidth)
      OBVIOUS
    <3> HIDE DEF x
    <3>5. pw \in Int
      BY <2>5, <3>1, <3>3
    <3> HIDE DEF pw, Put
    <3> QED BY <2>4, <3>1, <3>3, <3>4, <3>5 DEF Rect, Rects
  <2> HIDE DEF Put
  <2>7. \A v \in Windows : Face(Put(at(v))) \in Rects
    <3>1. ASSUME NEW v \in Windows PROVE at(v) \in Int
      <4> DEFINE I == {i \in 1 .. Len(rest) : rest[i] = v}
      <4>1. at(v) = IF I # {} THEN Min(I) ELSE 0
        BY Zenon DEF SelectInSeq
      <4>2. I \subseteq Nat
        OBVIOUS
      <4> HIDE DEF I, at
      <4>3. I # {} => Min(I) \in Nat
        BY <4>2, LeastNat
      <4> QED BY <4>1, <4>3
    <3> HIDE DEF at, Face
    <3> QED BY <1>1, <2>6, <3>1
  <2> HIDE DEF at, Face
  <2>8. \A v \in Windows : TiledTo(cc[v], other(v))
    <3> SUFFICES ASSUME NEW v \in Windows PROVE TiledTo(cc[v], other(v))
      OBVIOUS
    <3> DEFINE p == Face(Put(at(v)))
    <3>1. p \in Rects /\ cc[v] \in Client /\ BWidth \in Int
      BY <1>2, <2>7, BWidthType
    <3> HIDE DEF p
    <3>2. LET e == Resize(Reset([cc[v] EXCEPT !.bwidth = BWidth, !.geom = p]))
          IN TiledTo(cc[v], e)
      BY <3>1, TileOne
    <3> QED BY <3>2 DEF p
  <2> HIDE DEF other, rest
  <2>9. /\ a[w] = d
        /\ \A v \in Windows \ {w} :
             a[v] = IF v \in ToSet(rest) THEN other(v) ELSE cc[v]
    OBVIOUS
  <2>10. a \in [Windows -> Client]
    BY <1>2, <2>3, <2>8 DEF TiledTo, Changed
  <2> HIDE DEF a
  <2>12. ASSUME NEW v \in Windows
         PROVE  /\ Changed(cc[v], a[v]) /\ a[v].records = cc[v].records
                /\ v \notin ToSet(Tiled(w)) \/ "BORDER" \in cc[v].flags =>
                     (Bordered(cc[v]) => Bordered(a[v]))
                /\ v \notin {w} \cup ToSet(Tiled(w))
                     \/ "FULLSCREEN" \notin cc[v].flags => Normally(cc[v], a[v])
    <3>1. CASE v = w
      BY <2>3, <2>9, <3>1 DEF TiledTo, c
    <3>2. CASE v # w /\ v \in ToSet(rest)
      <4>1. a[v] = other(v)
        BY <2>9, <3>2
      <4> QED BY <2>8, <3>2, <4>1 DEF TiledTo, rest
    <3>3. CASE v # w /\ v \notin ToSet(rest)
      <4>1. a[v] = cc[v]
        BY <2>9, <3>3
      <4> QED BY <1>2, <1>5, <4>1
    <3> QED BY <3>1, <3>2, <3>3
  <2> QED BY <2>1, <2>10, <2>12
<1> QED
  BY <1>3, <1>4

----------------------------------------------------------------------------
(* What a client whose STICKY flag changes, or which comes back to a       *)
(* group, is left with.                                                    *)

\* A sticky client gets the geometry recorded for the group.
LEMMA RestoreType ==
  ASSUME NEW c \in Client, NEW g \in Groups
  PROVE  LET d == RestoreGeom(c, g)
         IN /\ Changed(c, d) /\ d.records = c.records
            /\ "STICKY" \in c.flags /\ c.records[g] # NoRect =>
                 d.geom = ApplySizeHints(c.hint, c.records[g])
            /\ ~("STICKY" \in c.flags /\ c.records[g] # NoRect) => d = c
            /\ Bordered(c) => Bordered(d)
            /\ Normally(c, d)
<1>1. Changed(c, c) /\ Normally(c, c)
  BY SettledRefl DEF Changed, Settled
<1>2. CASE "STICKY" \in c.flags /\ c.records[g] # NoRect
  <2> DEFINE e == [c EXCEPT !.geom = c.records[g]]
             d == Resize(e)
  <2>1. c.records[g] \in Rects
    BY <1>2 DEF Client, Records
  <2>2. e \in Client /\ e.geom = c.records[g] /\ Alike(e, c, {"geom"})
    BY <2>1 DEF Client, Alike
  <2>3. RestoreGeom(c, g) = d
    BY <1>2 DEF RestoreGeom
  <2> HIDE DEF e
  <2>4. /\ d \in Client /\ d.geom = ApplySizeHints(e.hint, e.geom)
        /\ d.xborder = e.bwidth
        /\ Alike(d, e, {"geom", "xgeom", "xborder"})
    BY <2>2, ResizeType
  <2> HIDE DEF d
  <2>5. /\ d.hint = c.hint /\ d.flags = c.flags /\ d.atoms = c.atoms
        /\ d.records = c.records /\ e.hint = c.hint
        /\ d.save = c.save /\ d.full = c.full
        /\ d.bwidth = c.bwidth /\ d.xborder = c.bwidth
    BY <2>2, <2>4 DEF Alike
  <2>6. Changed(c, d)
    BY <2>4, <2>5 DEF Changed, Seen
  <2>7. Bordered(c) => Bordered(d)
    BY <2>5 DEF Bordered
  <2>8. Steady(c.hint) => FitsW(c.hint, d.geom.w) /\ FitsH(c.hint, d.geom.h)
    BY <2>1, <2>2, <2>4, <2>5 DEF Steady, Fitting
  <2>9. Normally(c, d)
    BY <2>4, <2>5, <2>8, MoveNormally
  <2> QED BY <1>2, <2>2, <2>3, <2>4, <2>5, <2>6, <2>7, <2>9
<1>3. CASE ~("STICKY" \in c.flags /\ c.records[g] # NoRect)
  BY <1>1, <1>3 DEF RestoreGeom
<1> QED
  BY <1>2, <1>3

\* A sticky client joins the group that is now shown
LEMMA JoinType ==
  ASSUME NEW c \in Client, NEW g \in Groups
  PROVE  LET d == RestoreGeom(DrawBorder([c EXCEPT !.group = g]), g)
         IN /\ Changed(c, d) /\ d.records = c.records
            /\ "STICKY" \in c.flags /\ c.records[g] # NoRect =>
                 d.geom = ApplySizeHints(c.hint, c.records[g])
            /\ Bordered(c) => Bordered(d)
            /\ IF "STICKY" \in c.flags /\ c.records[g] # NoRect
                 THEN Normally(c, d) ELSE KeepsNormal(c, d)
<1> DEFINE b == DrawBorder([c EXCEPT !.group = g])
           d == RestoreGeom(b, g)
<1>1. b \in Client
  BY DEF DrawBorder, Client
<1>2. /\ b.hint = c.hint /\ b.flags = c.flags /\ b.atoms = c.atoms
      /\ b.records = c.records /\ b.geom = c.geom /\ b.save = c.save
      /\ b.full = c.full /\ b.bwidth = c.bwidth /\ b.xborder = c.bwidth
  BY DEF DrawBorder, Client
<1> HIDE DEF b
<1>3. /\ Changed(b, d) /\ d.records = b.records
      /\ "STICKY" \in b.flags /\ b.records[g] # NoRect =>
           d.geom = ApplySizeHints(b.hint, b.records[g])
      /\ ~("STICKY" \in b.flags /\ b.records[g] # NoRect) => d = b
      /\ Bordered(b) => Bordered(d)
      /\ Normally(b, d)
  BY <1>1, RestoreType
<1> HIDE DEF d
<1>4. Changed(c, d)
  BY <1>2, <1>3 DEF Changed, Seen
<1>5. Bordered(c) => Bordered(b)
  BY <1>2 DEF Bordered
<1>6. \A n \in Rects : Kept(c, n) => Kept(b, n)
  BY <1>2 DEF Kept
<1>7. Normally(c, d)
  BY <1>2, <1>3, <1>6 DEF Normally
<1>8. ~("STICKY" \in c.flags /\ c.records[g] # NoRect) => KeepsNormal(c, d)
  BY <1>2, <1>3, <1>6 DEF KeepsNormal
<1> QED
  BY <1>2, <1>3, <1>4, <1>5, <1>7, <1>8 DEF b, d

\* A client becomes sticky and keeps its normal geometry.
LEMMA StickType ==
  ASSUME NEW c \in Client
  PROVE  LET d == SetNetWmState([c EXCEPT !.flags = @ \cup {"STICKY"}])
         IN /\ d \in Client /\ Seen(d) /\ d.hint = c.hint
            /\ d.flags = c.flags \cup {"STICKY"} /\ d.records = c.records
            /\ Bordered(c) => Bordered(d)
            /\ \A n \in Rects : Kept(c, n) => Kept(d, n)
<1> DEFINE e == [c EXCEPT !.flags = @ \cup {"STICKY"}]
           d == SetNetWmState(e)
<1>1. e \in Client /\ e.flags = c.flags \cup {"STICKY"} /\ Alike(e, c, {"flags"})
  BY DEF Client, Alike, GeomFlags
<1> HIDE DEF e
<1>2. d \in Client /\ Seen(d) /\ Alike(d, e, {"atoms"})
  BY <1>1, StateType
<1> HIDE DEF d
<1>3. /\ d.flags = c.flags \cup {"STICKY"} /\ d.hint = c.hint
      /\ d.geom = c.geom /\ d.save = c.save /\ d.full = c.full
      /\ d.bwidth = c.bwidth /\ d.xborder = c.xborder /\ d.records = c.records
  BY <1>1, <1>2 DEF Alike
<1>4. Bordered(c) => Bordered(d)
  BY <1>3 DEF Bordered
<1>5. \A n \in Rects : Kept(c, n) => Kept(d, n)
  BY <1>3 DEF Kept
<1> QED
  BY <1>2, <1>3, <1>4, <1>5 DEF d, e

\* A client ceases to be sticky and keeps its normal geometry.
LEMMA UnstickType ==
  ASSUME NEW c \in Client, NEW g \in Groups
  PROVE  LET d == SetNetWmState(DrawBorder([c EXCEPT
                    !.flags = @ \ {"STICKY"}, !.group = g,
                    !.records = [h \in Groups |-> NoRect]]))
         IN /\ d \in Client /\ Seen(d) /\ d.hint = c.hint
            /\ d.flags = c.flags \ {"STICKY"}
            /\ Bordered(c) => Bordered(d)
            /\ \A n \in Rects : Kept(c, n) => Kept(d, n)
<1> DEFINE r == [h \in Groups |-> NoRect]
           e == DrawBorder([c EXCEPT !.flags = @ \ {"STICKY"}, !.group = g,
                                     !.records = r])
           d == SetNetWmState(e)
<1>1. r \in Records
  BY DEF Records
<1> HIDE DEF r
<1>2. /\ e \in Client /\ e.flags = c.flags \ {"STICKY"} /\ e.xborder = c.bwidth
      /\ Alike(e, c, {"flags", "group", "records", "xborder"})
  BY <1>1 DEF Client, Alike, DrawBorder
<1> HIDE DEF e
<1>3. d \in Client /\ Seen(d) /\ Alike(d, e, {"atoms"})
  BY <1>2, StateType
<1> HIDE DEF d
<1>4. /\ d.flags = c.flags \ {"STICKY"} /\ d.hint = c.hint
      /\ d.geom = c.geom /\ d.save = c.save /\ d.full = c.full
      /\ d.bwidth = c.bwidth /\ d.xborder = c.bwidth
  BY <1>2, <1>3 DEF Alike
<1>5. Bordered(c) => Bordered(d)
  BY <1>4 DEF Bordered
<1>6. \A n \in Rects : Kept(c, n) => Kept(d, n)
  BY <1>4 DEF Kept
<1> QED
  BY <1>3, <1>4, <1>5, <1>6 DEF d, e, r

----------------------------------------------------------------------------
(* Regular hints leave a size that they have left once.                    *)

\* What is left of a number without its remainder is on the grid.
LEMMA OnGrid ==
  ASSUME NEW x \in Nat, NEW k \in Nat \ {0}
  PROVE  (x - (x % k)) % k = 0 /\ x % k \in Nat /\ x % k <= x
<1>1. x = k * (x \div k) + (x % k) /\ x \div k \in Nat /\ x % k \in Nat
  OBVIOUS
<1>2. (k * (x \div k)) % k = 0
  BY <1>1
<1>3. k * (x \div k) \in Nat
  BY <1>1
<1> QED
  BY <1>1, <1>2, <1>3

\* Regular hints, applied twice, are the hints applied once.
LEMMA FitOnce ==
  ASSUME NEW v \in Int, NEW base \in Int, NEW min \in Int, NEW max \in Int,
         NEW inc \in Nat \ {0}, RegularSize(base, min, max, inc)
  PROVE  LET f == Fit(v, base, min, max, inc)
         IN Fit(f, base, min, max, inc) = f
<1> DEFINE t == v - CMod(v - base, inc)
           u == Larger(t, min)
           f == Fit(v, base, min, max, inc)
           Again(y) == y - CMod(y - base, inc)
<1>1. f = Larger(IF max # 0 THEN Smaller(u, max) ELSE u, 1)
  BY DEF Fit
<1>2. t \in Int
  BY CModType
<1>3. ASSUME t > min PROVE t - base \in Nat /\ (t - base) % inc = 0
  <2>1. CASE v - base >= 0
    <3>1. v - base \in Nat /\ t - base = (v - base) - ((v - base) % inc)
      BY <2>1 DEF CMod
    <3>2. t - base \in Nat
      BY <1>2, <1>3 DEF RegularSize
    <3> QED BY <3>1, <3>2, OnGrid
  <2>2. CASE v - base < 0
    <3>1. -(v - base) \in Nat
      BY <2>2
    <3>2. (-(v - base)) % inc <= -(v - base) /\ (-(v - base)) % inc \in Nat
      BY <3>1, OnGrid
    <3>3. t = v + ((-(v - base)) % inc)
      BY <2>2, <3>2 DEF CMod
    <3>4. t <= base
      BY <1>2, <3>2, <3>3
    <3> QED BY <1>2, <1>3, <3>4 DEF RegularSize
  <2> QED BY <2>1, <2>2
<1> HIDE DEF t
<1>4. \A y \in Int : y >= base => Again(y) <= y /\ Again(y) \in Int
  <2> SUFFICES ASSUME NEW y \in Int, y >= base PROVE Again(y) <= y /\ Again(y) \in Int
    OBVIOUS
  <2>1. y - base \in Nat
    OBVIOUS
  <2>2. (y - base) % inc \in Nat
    BY <2>1, OnGrid
  <2> QED BY <2>1, <2>2 DEF CMod
<1>5. \A y \in Int : y >= base /\ (y - base) % inc = 0 => Again(y) = y
  BY DEF CMod
<1>6. \A y : Fit(y, base, min, max, inc)
               = Larger(IF max # 0 THEN Smaller(Larger(Again(y), min), max)
                                   ELSE Larger(Again(y), min), 1)
  BY DEF Fit
<1> HIDE DEF Again
<1>7. u \in Int /\ u >= min /\ min >= base /\ base >= 0
  BY <1>2 DEF Larger, RegularSize
<1>8. CASE u = t /\ t > min /\ (max = 0 \/ t <= max)
  <2>1. f = u
    <3>1. u >= 1
      BY <1>2, <1>7, <1>8
    <3> HIDE DEF f, u
    <3> QED BY <1>1, <1>2, <1>7, <1>8, <3>1 DEF Larger, Smaller
  <2>2. Again(u) = u
    BY <1>3, <1>5, <1>7, <1>8
  <2> QED BY <1>6, <1>7, <1>8, <2>1, <2>2 DEF Larger, Smaller
<1>9. CASE max # 0 /\ u > max
  <2>1. f = max /\ max >= base /\ max >= 1
    BY <1>1, <1>7, <1>9 DEF Larger, Smaller, RegularSize
  <2>2. Again(max) = max
    BY <1>5, <1>9, <2>1 DEF RegularSize
  <2> QED BY <1>6, <1>7, <1>9, <2>1, <2>2 DEF Larger, Smaller, RegularSize
<1>10. CASE u = min /\ (max = 0 \/ min <= max)
  <2>1. f = IF min < 1 THEN 1 ELSE min
    <3> HIDE DEF f, u
    <3> QED BY <1>1, <1>7, <1>10 DEF Larger, Smaller
  <2>2. CASE min >= 1
    <3>1. Again(min) <= min /\ Again(min) \in Int
      BY <1>4, <1>7
    <3> QED BY <1>6, <1>7, <1>10, <2>1, <2>2, <3>1 DEF Larger, Smaller
  <2>3. CASE min < 1
    <3>1. Again(1) <= 1 /\ Again(1) \in Int /\ min = 0
      BY <1>4, <1>7, <2>3
    <3>2. max = 0 \/ max >= 1
      BY <1>7, <1>10, <3>1
    <3> QED BY <1>6, <1>10, <2>1, <2>3, <3>1, <3>2 DEF Larger, Smaller
  <2> QED BY <1>7, <2>2, <2>3
<1>11. (u = t /\ t > min) \/ u = min
  BY <1>2 DEF Larger
<1> QED
  BY <1>2, <1>7, <1>8, <1>9, <1>10, <1>11 DEF RegularSize

\* Regular hints have no aspect: each dimension is for itself.
LEMMA RegularApply ==
  ASSUME NEW hint \in Hints, RegularHints(hint), NEW g \in Rects
  PROVE  LET w == Fit(g.w, hint.basew, hint.minw, hint.maxw, hint.incw)
             h == Fit(g.h, hint.baseh, hint.minh, hint.maxh, hint.inch)
         IN /\ ApplySizeHints(hint, g).w = w /\ w \in Int
            /\ ApplySizeHints(hint, g).h = h /\ h \in Int
<1> DEFINE bw == IF hint.basew = hint.minw /\ hint.baseh = hint.minh
                   THEN 0 ELSE hint.basew
           bh == IF hint.basew = hint.minw /\ hint.baseh = hint.minh
                   THEN 0 ELSE hint.baseh
           a  == Aspect(hint, g.w - bw, g.h - bh)
           fw == Fit(a[1] + bw, hint.basew, hint.minw, hint.maxw, hint.incw)
           fh == Fit(a[2] + bh, hint.baseh, hint.minh, hint.maxh, hint.inch)
<1>1. /\ bw \in Int /\ bh \in Int /\ g.w \in Int /\ g.h \in Int
      /\ hint.basew \in Int /\ hint.minw \in Int /\ hint.maxw \in Int
      /\ hint.baseh \in Int /\ hint.minh \in Int /\ hint.maxh \in Int
      /\ hint.incw \in Nat \ {0} /\ hint.inch \in Nat \ {0}
  BY DEF Hints, Rects
<1>2. a = <<g.w - bw, g.h - bh>>
  BY DEF Aspect, RegularHints
<1>3. ApplySizeHints(hint, g) = [g EXCEPT !.w = fw, !.h = fh]
  BY DEF ApplySizeHints
<1>4. a[1] + bw = g.w /\ a[2] + bh = g.h
  <2> HIDE DEF bw, bh, a
  <2> QED BY <1>1, <1>2
<1> HIDE DEF a, bw, bh
<1>5. fw \in Int /\ fh \in Int
  BY <1>1, <1>4, FitType
<1> QED
  BY <1>3, <1>4, <1>5 DEF Rects

\* Under regular hints every size that comes out fits.
LEMMA RegularSteady ==
  ASSUME NEW hint \in Hints, RegularHints(hint)
  PROVE  /\ Steady(hint)
         /\ \A g \in Rects : ApplySizeHints(hint, g) = g => Fitting(hint, g)
<1> DEFINE W(v) == Fit(v, hint.basew, hint.minw, hint.maxw, hint.incw)
           H(v) == Fit(v, hint.baseh, hint.minh, hint.maxh, hint.inch)
<1>1. \A g \in Rects : /\ ApplySizeHints(hint, g).w = W(g.w)
                       /\ ApplySizeHints(hint, g).h = H(g.h)
                       /\ ApplySizeHints(hint, g) \in Rects
                       /\ g.w \in Int /\ g.h \in Int
  BY RegularApply, HintsType, RectType
<1>2. \A v \in Int : W(W(v)) = W(v) /\ H(H(v)) = H(v)
  <2>1. /\ hint.basew \in Int /\ hint.minw \in Int /\ hint.maxw \in Int
        /\ hint.baseh \in Int /\ hint.minh \in Int /\ hint.maxh \in Int
        /\ hint.incw \in Nat \ {0} /\ hint.inch \in Nat \ {0}
    BY DEF Hints
  <2>2. /\ RegularSize(hint.basew, hint.minw, hint.maxw, hint.incw)
        /\ RegularSize(hint.baseh, hint.minh, hint.maxh, hint.inch)
    BY DEF RegularHints
  <2>3. ASSUME NEW v \in Int PROVE W(W(v)) = W(v) /\ H(H(v)) = H(v)
    <3> DEFINE base == hint.basew
               min == hint.minw
               max == hint.maxw
               inc == hint.incw
               b == hint.baseh
               n == hint.minh
               x == hint.maxh
               i == hint.inch
    <3>1. /\ base \in Int /\ min \in Int /\ max \in Int /\ inc \in Nat \ {0}
          /\ b \in Int /\ n \in Int /\ x \in Int /\ i \in Nat \ {0}
          /\ RegularSize(base, min, max, inc) /\ RegularSize(b, n, x, i)
      BY <2>1, <2>2
    <3> HIDE DEF base, min, max, inc, b, n, x, i
    <3>2. LET f == Fit(v, base, min, max, inc) IN Fit(f, base, min, max, inc) = f
      BY <3>1, FitOnce
    <3>3. LET f == Fit(v, b, n, x, i) IN Fit(f, b, n, x, i) = f
      BY <3>1, FitOnce
    <3> QED BY <3>2, <3>3 DEF base, min, max, inc, b, n, x, i
  <2> HIDE DEF W, H
  <2> QED BY <2>3
<1> HIDE DEF W, H
<1>3. \A g \in Rects : ApplySizeHints(hint, g) = g => Fitting(hint, g)
  BY <1>1 DEF Fitting, FitsW, FitsH
<1>4. \A g \in Rects : Fitting(hint, ApplySizeHints(hint, g))
  BY <1>1, <1>2 DEF Fitting, FitsW, FitsH
<1> QED
  BY <1>3, <1>4 DEF Steady

----------------------------------------------------------------------------
(* The beginning.                                                          *)

\* A new client, and what holds of it from the start.
LEMMA OpenedType ==
  ASSUME NEW w \in Windows, NEW o \in Arrivals
  PROVE  LET d == Opened(w, o)
         IN /\ d \in Client /\ Seen(d)
            /\ d.hint = GetSizeHints(NoHints, o.size)
            /\ w \notin Ignored => Bordered(d)
            /\ Fitting(d.hint, Placed(o)) => Kept(d, Placed(o))
<1> DEFINE g == Placed(o)
           none == Rect(0, 0, 0, 0)
           hint == GetSizeHints(NoHints, o.size)
           b == IF w \in Ignored THEN 0 ELSE BWidth
           f == {"BORDER"} \cup (IF w \in Ignored THEN {"IGNORE"} ELSE {})
           r == [h \in Groups |-> NoRect]
           xg == [g EXCEPT !.w = o.geom.w, !.h = o.geom.h]
           c == [geom |-> g, save |-> none, full |-> none, hint |-> hint,
                 group |-> 0, bwidth |-> b, flags |-> f, records |-> r,
                 extended |-> FALSE, atoms |-> {}, xborder |-> 0, xgeom |-> xg]
           e == DrawBorder(c)
           d == RestoreNetWmState(e, o.atoms)
           a == [d EXCEPT !.xgeom.x = d.geom.x, !.xgeom.y = d.geom.y]
<1>1. Opened(w, o) = a
  BY Zenon DEF Opened
<1>2. /\ g \in Rects /\ hint \in Hints /\ o.geom \in Rects
      /\ o.atoms \in Seq(StateNames)
  BY PlacedType, ArrivalType
<1>3. none \in Rects /\ r \in Records /\ b \in Int /\ f \in SUBSET GeomFlags
  BY BWidthType DEF Rect, Rects, Records, GeomFlags
<1> HIDE DEF g, hint
<1>4. xg \in Rects
  BY <1>2 DEF Rects
<1>5. 0 \in Groups
  BY GeometryAssumption DEF Groups
<1>6. StateAtoms(f) = {} /\ "FULLSCREEN" \notin f /\ "HMAX" \notin f
      /\ "VMAX" \notin f /\ "BORDER" \in f
  BY DEF StateAtoms, NetStates, MAXIMIZED
<1>7. w \notin Ignored => b = BWidth
  OBVIOUS
<1> HIDE DEF none, r, b, f, xg
<1>8. /\ e \in Client /\ e.geom = g /\ e.hint = hint /\ e.bwidth = b
      /\ e.xborder = b /\ e.flags = f /\ e.atoms = {}
  BY <1>2, <1>3, <1>4, <1>5 DEF DrawBorder, Client
<1> HIDE DEF c, e
<1>9. Seen(e)
  BY <1>6, <1>8 DEF Seen
<1>10. w \notin Ignored => Bordered(e)
  BY <1>6, <1>7, <1>8 DEF Bordered
<1>11. Fitting(hint, g) => Kept(e, g)
  BY <1>6, <1>8 DEF Kept
<1>12. Preserved(e, d)
  BY <1>2, <1>8, RestorePreserves
<1> HIDE DEF d
<1>13. /\ d \in Client /\ Seen(d) /\ d.hint = hint
       /\ w \notin Ignored => Bordered(d)
       /\ Fitting(hint, g) => Kept(d, g)
  BY <1>2, <1>6, <1>8, <1>9, <1>10, <1>11, <1>12 DEF Preserved, KeepsNormal, Held
<1>14. a \in Client /\ Alike(a, d, {"xgeom"})
  BY <1>13 DEF Client, Rects, Alike
<1> HIDE DEF a
<1>15. /\ a.atoms = d.atoms /\ a.flags = d.flags /\ a.hint = d.hint
       /\ a.bwidth = d.bwidth /\ a.xborder = d.xborder
       /\ a.geom = d.geom /\ a.save = d.save /\ a.full = d.full
  BY <1>14 DEF Alike
<1>16. Seen(a) /\ (w \notin Ignored => Bordered(a)) /\ (Fitting(hint, g) => Kept(a, g))
  BY <1>13, <1>15 DEF Seen, Bordered, Kept
<1> QED
  BY <1>1, <1>13, <1>14, <1>15, <1>16 DEF g, hint

PlacedKept ==
  \A w \in Windows, g \in Groups :
    placed[w][g] # NoRect =>
      "STICKY" \in cc[w].flags /\ cc[w].records[g] = placed[w][g]

BorderKept == \A w \in Windows \ (Ignored \cup forced) : Bordered(cc[w])

NormalKept ==
  \A w \in Windows : /\ Steady(cc[w].hint)
                     /\ \A g \in Starts : Fitting(cc[w].hint, g)
                     /\ w \notin shared => Kept(cc[w], normal[w])

GInv == /\ GTypeOK /\ PagerSeesState /\ PlacedKept /\ BorderKept
        /\ SizesAgree => NormalKept

\* The invariant holds at first.
LEMMA InitGInv == GInit => GInv
<1> SUFFICES ASSUME GInit PROVE GInv
  OBVIOUS
<1>1. PICK open \in [Windows -> Arrivals] :
        /\ cc = [w \in Windows |-> Opened(w, open[w])]
        /\ normal = [w \in Windows |-> Placed(open[w])]
  BY DEF GInit, Arrivals
<1>2. /\ current = 0 /\ session \in Sessions /\ shared = {} /\ forced = {}
      /\ placed = [w \in Windows |-> [g \in Groups |-> NoRect]]
  BY DEF GInit
<1>3. \A w \in Windows :
        /\ cc[w] \in Client /\ Seen(cc[w])
        /\ cc[w].hint = GetSizeHints(NoHints, open[w].size)
        /\ w \notin Ignored => Bordered(cc[w])
        /\ Fitting(cc[w].hint, normal[w]) => Kept(cc[w], normal[w])
        /\ normal[w] \in Rects
  BY <1>1, OpenedType, PlacedType
<1>4. GTypeOK
  <2>1. members \in [Groups -> Seq(Windows)]
    <3>1. PICK q \in SetToSeqs(Windows) :
            members = [g \in Groups |-> IF g = 0 THEN q ELSE <<>>]
      BY DEF GInit
    <3>2. Cardinality(Windows) \in Nat
      BY GeometryAssumption, FS_CardinalityType
    <3>3. q \in [1 .. Cardinality(Windows) -> Windows]
      BY <3>1 DEF SetToSeqs
    <3>4. q \in Seq(Windows)
      BY <3>2, <3>3
    <3> QED BY <3>1, <3>4
  <2>2. 0 \in Groups
    BY GeometryAssumption DEF Groups
  <2>3. session \in [commands : SUBSET STRING, placements : Nat, mixtures : Nat]
    BY <1>2, GeometryAssumption
  <2>4. placed \in [Windows -> Records]
    BY <1>2 DEF Records
  <2>5. cc \in [Windows -> Client] /\ normal \in [Windows -> Rects]
    BY <1>1, <1>3
  <2> QED BY <1>2, <2>1, <2>2, <2>3, <2>4, <2>5 DEF GTypeOK
<1>5. PagerSeesState
  BY <1>3 DEF PagerSeesState, Seen
<1>6. PlacedKept
  BY <1>2 DEF PlacedKept
<1>7. BorderKept
  BY <1>3 DEF BorderKept
<1>8. SizesAgree => NormalKept
  <2> SUFFICES ASSUME SizesAgree, NEW w \in Windows
               PROVE  /\ Steady(cc[w].hint)
                      /\ \A g \in Starts : Fitting(cc[w].hint, g)
                      /\ Kept(cc[w], normal[w])
    BY DEF NormalKept
  <2> DEFINE o == open[w]
             hint == cc[w].hint
  <2>1. o \in Arrivals /\ normal[w] = Placed(o)
    BY <1>1
  <2>2. hint = GetSizeHints(NoHints, o.size) /\ hint \in Hints
    BY <1>3 DEF Client
  <2>3. /\ RegularHints(hint)
        /\ \A g \in Starts \cup {Placed(o)} : ApplySizeHints(hint, g) = g
    BY <2>1, <2>2 DEF SizesAgree, Arrivals
  <2>4. Placed(o) \in Rects /\ Starts \subseteq Rects
    BY <2>1, PlacedType, InputsAssumption
  <2> HIDE DEF o, hint
  <2>5. /\ Steady(hint) /\ Fitting(hint, Placed(o))
        /\ \A g \in Starts : Fitting(hint, g)
    BY <2>2, <2>3, <2>4, RegularSteady
  <2> QED BY <1>3, <2>1, <2>5 DEF hint
<1> QED
  BY <1>4, <1>5, <1>6, <1>7, <1>8 DEF GInv

----------------------------------------------------------------------------
(* The steps.                                                              *)

\* What is left of the bounds of a session
LEMMA SessionType ==
  ASSUME GTypeOK, NEW shares, NEW forces, Mixes(shares, forces)
  PROVE  LET left == MixturesLeft(shares, forces)
         IN /\ [session EXCEPT !.mixtures = left]
                 \in [commands : SUBSET STRING, placements : Nat, mixtures : Nat]
            /\ session.placements > 0 =>
                 [session EXCEPT !.placements = @ - 1, !.mixtures = left]
                   \in [commands : SUBSET STRING, placements : Nat, mixtures : Nat]
<1> DEFINE left == MixturesLeft(shares, forces)
<1>1. session.placements \in Nat /\ session.mixtures \in Nat
  BY DEF GTypeOK
<1>2. left \in Nat
  BY <1>1 DEF MixturesLeft, Mixes
<1>3. session.placements > 0 => session.placements - 1 \in Nat
  BY <1>1
<1> HIDE DEF left
<1>4. [session EXCEPT !.mixtures = left]
        \in [commands : SUBSET STRING, placements : Nat, mixtures : Nat]
  BY <1>2 DEF GTypeOK
<1>5. ASSUME session.placements > 0
      PROVE  [session EXCEPT !.placements = @ - 1, !.mixtures = left]
               \in [commands : SUBSET STRING, placements : Nat, mixtures : Nat]
  <2> DEFINE p == session.placements - 1
  <2>1. p \in Nat
    BY <1>3, <1>5
  <2> HIDE DEF p
  <2>2. [session EXCEPT !.placements = p, !.mixtures = left]
          \in [commands : SUBSET STRING, placements : Nat, mixtures : Nat]
    BY <1>2, <2>1 DEF GTypeOK
  <2> QED BY <2>2 DEF p
<1> QED
  BY <1>4, <1>5 DEF left

\* A command that gives no window a new place
LEMMA ToggleKeeps ==
  ASSUME GInv, NEW w \in Windows, NEW c,
         NEW shares \in SUBSET Windows, NEW forces \in SUBSET Windows,
         Toggle(w, c, shares, forces),
         Changed(cc[w], c), c.records = cc[w].records,
         w \notin forces => (Bordered(cc[w]) => Bordered(c)),
         w \notin shares => KeepsNormal(cc[w], c)
  PROVE  GInv'
<1> USE DEF GInv
<1>1. /\ cc' = [cc EXCEPT ![w] = c]
      /\ shared' = shared \cup shares /\ forced' = forced \cup forces
      /\ UNCHANGED <<members, current, normal, placed>>
  BY DEF Toggle, Mixes
<1>8. session' \in [commands : SUBSET STRING, placements : Nat, mixtures : Nat]
  BY SessionType DEF Toggle
<1>2. GTypeOK'
  BY <1>1, <1>8 DEF GTypeOK, Changed
<1>3. /\ cc'[w] = c /\ \A v \in Windows \ {w} : cc'[v] = cc[v]
      /\ \A v \in Windows : cc'[v] \in Client /\ cc[v] \in Client
  BY <1>1, <1>2 DEF GTypeOK
<1>4. PagerSeesState'
  BY <1>3 DEF PagerSeesState, Changed, Seen
<1>5. PlacedKept'
  BY <1>1, <1>3 DEF PlacedKept, Changed
<1>6. BorderKept'
  BY <1>1, <1>3 DEF BorderKept
<1>7. SizesAgree => NormalKept'
  <2> SUFFICES ASSUME SizesAgree, NEW v \in Windows
               PROVE  /\ Steady(cc'[v].hint)
                      /\ \A g \in Starts : Fitting(cc'[v].hint, g)
                      /\ v \notin shared' => Kept(cc'[v], normal'[v])
    BY DEF NormalKept
  <2>1. /\ Steady(cc[v].hint) /\ \A g \in Starts : Fitting(cc[v].hint, g)
        /\ v \notin shared => Kept(cc[v], normal[v])
    BY DEF NormalKept
  <2>2. normal[v] \in Rects /\ normal' = normal
    BY <1>1 DEF GTypeOK
  <2>3. CASE v = w
    BY <1>1, <1>3, <2>1, <2>2, <2>3 DEF Changed, KeepsNormal
  <2>4. CASE v # w
    BY <1>1, <1>3, <2>1, <2>2, <2>4
  <2> QED BY <2>3, <2>4
<1> QED
  BY <1>2, <1>4, <1>5, <1>6, <1>7

\* A command that places windows.  What is remembered of a placement by hand is
\* what the client has recorded.
LEMMA PlaceKeeps ==
  ASSUME GInv, NEW w \in Windows, NEW after \in [Windows -> Client],
         NEW byhand \in BOOLEAN,
         NEW shares \in SUBSET Windows, NEW forces \in SUBSET Windows,
         Place(w, after, byhand, shares, forces),
         \A v \in Windows : Changed(cc[v], after[v]),
         \A v \in Windows \ {w} : after[v].records = cc[v].records,
         after[w].records = IF byhand /\ "STICKY" \in cc[w].flags
                              THEN [cc[w].records EXCEPT ![current] = after[w].geom]
                              ELSE cc[w].records,
         \A v \in Windows \ forces : Bordered(cc[v]) => Bordered(after[v]),
         SizesAgree => \A v \in Windows \ shares : Normally(cc[v], after[v])
  PROVE  GInv'
<1> USE DEF GInv
<1>1. /\ cc' = after
      /\ shared' = shared \cup shares /\ forced' = forced \cup forces
      /\ normal' = [v \in Windows |-> NormalAfter(after[v], normal[v])]
      /\ placed' = IF byhand /\ "STICKY" \in cc[w].flags
                     THEN [placed EXCEPT ![w][current] = after[w].geom] ELSE placed
      /\ UNCHANGED <<members, current>>
  BY DEF Place, Mixes
<1>8. session' \in [commands : SUBSET STRING, placements : Nat, mixtures : Nat]
  BY SessionType DEF Place
<1>2. \A v \in Windows : normal[v] \in Rects /\ after[v] \in Client /\ cc[v] \in Client
  BY DEF GTypeOK
<1>3. GTypeOK'
  <2>1. normal' \in [Windows -> Rects]
    BY <1>1, <1>2, NormalAfterIs
  <2>2. placed' \in [Windows -> Records]
    <3>1. after[w].geom \in Rects /\ current \in Groups /\ placed \in [Windows -> Records]
      BY DEF GTypeOK, Client
    <3>2. [placed[w] EXCEPT ![current] = after[w].geom] \in Records
      BY <3>1 DEF Records
    <3>3. [placed EXCEPT ![w][current] = after[w].geom] \in [Windows -> Records]
      BY <3>1, <3>2
    <3> QED BY <1>1, <3>1, <3>3
  <2> QED BY <1>1, <1>8, <2>1, <2>2 DEF GTypeOK
<1>4. PagerSeesState'
  BY <1>1 DEF PagerSeesState, Changed, Seen
<1>5. PlacedKept'
  <2> SUFFICES ASSUME NEW v \in Windows, NEW g \in Groups, placed'[v][g] # NoRect
               PROVE  "STICKY" \in cc'[v].flags /\ cc'[v].records[g] = placed'[v][g]
    BY DEF PlacedKept
  <2>1. "STICKY" \in cc[v].flags <=> "STICKY" \in cc'[v].flags
    BY <1>1 DEF Changed
  <2>2. /\ placed[v] \in Records /\ cc[v].records \in Records
        /\ placed \in [Windows -> Records]
    BY <1>2 DEF GTypeOK, Client
  <2>3. placed[v][g] # NoRect => /\ "STICKY" \in cc[v].flags
                                 /\ cc[v].records[g] = placed[v][g]
    BY DEF PlacedKept
  <2>4. CASE v = w /\ byhand /\ "STICKY" \in cc[w].flags
    <3>1. placed'[v] = [placed[v] EXCEPT ![current] = after[w].geom]
      BY <1>1, <2>2, <2>4
    <3>2. cc'[v].records = [cc[v].records EXCEPT ![current] = after[w].geom]
      BY <1>1, <2>4
    <3>3. DOMAIN placed[v] = Groups /\ DOMAIN cc[v].records = Groups
      BY <2>2 DEF Records
    <3> QED BY <2>1, <2>3, <2>4, <3>1, <3>2, <3>3
  <2>5. CASE ~(v = w /\ byhand /\ "STICKY" \in cc[w].flags)
    <3>1. placed'[v] = placed[v] /\ cc'[v].records = cc[v].records
      BY <1>1, <2>2, <2>5
    <3> QED BY <2>1, <2>3, <3>1
  <2> QED BY <2>4, <2>5
<1>6. BorderKept'
  BY <1>1 DEF BorderKept
<1>7. SizesAgree => NormalKept'
  <2> SUFFICES ASSUME SizesAgree, NEW v \in Windows
               PROVE  /\ Steady(cc'[v].hint)
                      /\ \A g \in Starts : Fitting(cc'[v].hint, g)
                      /\ v \notin shared' => Kept(cc'[v], normal'[v])
    BY DEF NormalKept
  <2>1. /\ Steady(cc[v].hint) /\ \A g \in Starts : Fitting(cc[v].hint, g)
        /\ v \notin shared => Kept(cc[v], normal[v])
    BY DEF NormalKept
  <2>2. cc'[v] = after[v] /\ normal'[v] = NormalAfter(after[v], normal[v])
    BY <1>1
  <2>3. v \notin shared' => Kept(cc'[v], normal'[v])
    BY <1>1, <1>2, <2>1, <2>2 DEF Normally
  <2> QED BY <2>1, <2>2, <2>3 DEF Changed
<1> QED
  BY <1>3, <1>4, <1>5, <1>6, <1>7

\* To settle is a change.
LEMMA SettledChanges ==
  ASSUME NEW c, NEW d, Settled(c, d)
  PROVE  Changed(c, d)
BY DEF Settled, Changed

\* To preserve is a change, and leaves the records and the border.
LEMMA PreservedChanges ==
  ASSUME NEW c, NEW d, Preserved(c, d)
  PROVE  /\ Changed(c, d) /\ d.records = c.records
         /\ Bordered(c) => Bordered(d)
BY DEF Preserved, Changed

\* A move or a resize by hand of one window
LEMMA PlaceOneKeeps ==
  ASSUME GInv, NEW w \in Windows, NEW c \in Client, NEW shares \in SUBSET Windows,
         PlaceOne(w, c, shares), ~Frozen(w),
         Changed(cc[w], c), c.records = cc[w].records,
         Bordered(cc[w]) => Bordered(c),
         w \notin shares => Normally(cc[w], c)
  PROVE  GInv'
<1> DEFINE d == RecordGeom(c, current)
           after == [cc EXCEPT ![w] = d]
           none == {}
<1>1. current \in Groups /\ cc[w] \in Client
  BY DEF GInv, GTypeOK
<1>2. /\ d \in Client /\ Alike(d, c, {"records"})
      /\ d.records = IF "STICKY" \in c.flags
                       THEN [c.records EXCEPT ![current] = c.geom] ELSE c.records
  BY <1>1, RecordType
<1>3. Place(w, after, TRUE, shares, none) /\ none \in SUBSET Windows
  BY DEF PlaceOne
<1> HIDE DEF d, none
<1>4. /\ d.geom = c.geom /\ d.flags = c.flags /\ d.hint = c.hint
      /\ d.group = c.group /\ d.save = c.save /\ d.full = c.full
      /\ d.atoms = c.atoms /\ d.bwidth = c.bwidth /\ d.xborder = c.xborder
  BY <1>2 DEF Alike
<1>5. Changed(cc[w], d)
  BY <1>2, <1>4 DEF Changed, Seen
<1>6. /\ after \in [Windows -> Client] /\ after[w] = d
      /\ \A v \in Windows \ {w} : after[v] = cc[v]
      /\ \A v \in Windows : cc[v] \in Client
  BY <1>2 DEF GInv, GTypeOK
<1> HIDE DEF after
<1>7. ASSUME w \notin shares PROVE Normally(cc[w], d)
  <2>1. \A n \in Rects : NormalAfter(d, n) = NormalAfter(c, n)
    BY <1>4 DEF NormalAfter
  <2>2. \A n : Kept(c, n) => Kept(d, n)
    BY <1>4 DEF Kept
  <2> QED BY <1>7, <2>1, <2>2 DEF Normally
<1>8. "STICKY" \in c.flags <=> "STICKY" \in cc[w].flags
  BY DEF Changed
<1>9. after[w].records = IF TRUE /\ "STICKY" \in cc[w].flags
                           THEN [cc[w].records EXCEPT ![current] = after[w].geom]
                           ELSE cc[w].records
  BY <1>2, <1>4, <1>6, <1>8
<1>10. \A v \in Windows : Changed(cc[v], cc[v]) /\ Normally(cc[v], cc[v])
  BY <1>6, SettledRefl, SettledChanges DEF Settled
<1>11. \A v \in Windows : Changed(cc[v], after[v])
  BY <1>5, <1>6, <1>10
<1>12. \A v \in Windows : Bordered(cc[v]) => Bordered(after[v])
  <2>1. Bordered(c) => Bordered(d)
    BY <1>4 DEF Bordered
  <2> QED BY <1>6, <2>1
<1>13. \A v \in Windows \ shares : Normally(cc[v], after[v])
  BY <1>6, <1>7, <1>10
<1>14. \A v \in Windows \ {w} : after[v].records = cc[v].records
  BY <1>6
<1> QED
  BY <1>3, <1>6, <1>9, <1>11, <1>12, <1>13, <1>14, PlaceKeeps

\* Windows in some order.
LEMMA SequenceOfSet ==
  ASSUME NEW S \in SUBSET Windows
  PROVE  SetToSeq(S) \in Seq(Windows)
<1>1. IsFiniteSet(S)
  BY GeometryAssumption, FS_Subset
<1>2. SetToSeq(S) \in Seq(S)
  BY <1>1, SetListed
<1> QED
  BY <1>2

\* client_toggle_sticky
LEMMA StickyKeeps ==
  ASSUME GInv, NEW w \in Windows, KbSticky(w)
  PROVE  GInv'
<1> USE DEF GInv
<1> DEFINE c == cc[w]
           none == [g \in Groups |-> NoRect]
           on == SetNetWmState([c EXCEPT !.flags = @ \cup {"STICKY"}])
           off == SetNetWmState(DrawBorder([c EXCEPT
                    !.flags = @ \ {"STICKY"}, !.group = current, !.records = none]))
           d == IF "STICKY" \in c.flags THEN off ELSE on
<1>1. c \in Client /\ current \in Groups
  BY DEF GTypeOK
<1>2. cc' = [cc EXCEPT ![w] = d]
  BY DEF KbSticky
<1>3. /\ placed' = IF "STICKY" \in c.flags THEN [placed EXCEPT ![w] = none] ELSE placed
      /\ members' = IF "STICKY" \in c.flags
           THEN [members EXCEPT ![current] = Append(Keep(@, Windows \ {w}), w)]
           ELSE members
      /\ UNCHANGED <<current, session, normal, shared, forced>>
  BY DEF KbSticky
<1>4. /\ d \in Client /\ Seen(d) /\ d.hint = c.hint
      /\ Bordered(c) => Bordered(d)
      /\ \A n \in Rects : Kept(c, n) => Kept(d, n)
      /\ "STICKY" \notin c.flags =>
           d.flags = c.flags \cup {"STICKY"} /\ d.records = c.records
  BY <1>1, StickType, UnstickType
<1> HIDE DEF d, on, off, c
<1>5. /\ cc'[w] = d /\ \A v \in Windows \ {w} : cc'[v] = cc[v]
      /\ cc' \in [Windows -> Client]
  BY <1>2, <1>4 DEF GTypeOK
<1>6. GTypeOK'
  <2>1. none \in Records
    BY DEF Records
  <2> HIDE DEF none
  <2>2. placed' \in [Windows -> Records]
    BY <1>3, <2>1 DEF GTypeOK
  <2>3. members' \in [Groups -> Seq(Windows)]
    <3>1. members[current] \in Seq(Windows)
      BY DEF GTypeOK
    <3>2. Keep(members[current], Windows \ {w}) \in Seq(Windows \cap (Windows \ {w}))
      BY <3>1, KeepType
    <3>3. Keep(members[current], Windows \ {w}) \in Seq(Windows)
      BY <3>2
    <3>4. Append(Keep(members[current], Windows \ {w}), w) \in Seq(Windows)
      BY <3>3
    <3> QED BY <1>3, <3>4 DEF GTypeOK
  <2> QED BY <1>3, <1>5, <2>2, <2>3 DEF GTypeOK
<1>7. PagerSeesState'
  BY <1>4, <1>5 DEF PagerSeesState, Seen
<1>8. PlacedKept'
  <2> SUFFICES ASSUME NEW v \in Windows, NEW g \in Groups, placed'[v][g] # NoRect
               PROVE  "STICKY" \in cc'[v].flags /\ cc'[v].records[g] = placed'[v][g]
    BY DEF PlacedKept
  <2>1. placed[v][g] # NoRect => /\ "STICKY" \in cc[v].flags
                                 /\ cc[v].records[g] = placed[v][g]
    BY DEF PlacedKept
  <2>2. CASE v = w /\ "STICKY" \in c.flags
    <3>1. placed'[v] = none
      BY <1>3, <2>2 DEF GTypeOK
    <3> QED BY <3>1
  <2>3. CASE v = w /\ "STICKY" \notin c.flags
    BY <1>3, <1>4, <1>5, <2>1, <2>3 DEF c
  <2>4. CASE v # w
    <3>1. placed'[v] = placed[v]
      BY <1>3, <2>4 DEF GTypeOK
    <3> QED BY <1>5, <2>1, <2>4, <3>1
  <2> QED BY <2>2, <2>3, <2>4
<1>9. BorderKept'
  BY <1>3, <1>4, <1>5 DEF BorderKept, c
<1>10. SizesAgree => NormalKept'
  <2> SUFFICES ASSUME SizesAgree, NEW v \in Windows
               PROVE  /\ Steady(cc'[v].hint)
                      /\ \A g \in Starts : Fitting(cc'[v].hint, g)
                      /\ v \notin shared' => Kept(cc'[v], normal'[v])
    BY DEF NormalKept
  <2>1. /\ Steady(cc[v].hint) /\ \A g \in Starts : Fitting(cc[v].hint, g)
        /\ v \notin shared => Kept(cc[v], normal[v])
    BY DEF NormalKept
  <2>2. normal[v] \in Rects /\ normal' = normal /\ shared' = shared
    BY <1>3 DEF GTypeOK
  <2>3. CASE v = w
    BY <1>4, <1>5, <2>1, <2>2, <2>3 DEF c
  <2>4. CASE v # w
    BY <1>5, <2>1, <2>2, <2>4
  <2> QED BY <2>3, <2>4
<1> QED
  BY <1>6, <1>7, <1>8, <1>9, <1>10

\* group_only
LEMMA SwitchKeeps ==
  ASSUME GInv, NEW g \in Groups, Switch(g)
  PROVE  GInv'
<1> USE DEF GInv
<1> DEFINE sticky == {w \in Windows : "STICKY" \in cc[w].flags}
           joined(w) == RestoreGeom(DrawBorder([cc[w] EXCEPT !.group = g]), g)
<1>1. /\ current' = g
      /\ members' = [h \in Groups |->
                       IF h = g THEN Keep(members[g], Windows \ sticky)
                                       \o SetToSeq(sticky)
                       ELSE Keep(members[h], Windows \ sticky)]
      /\ cc' = [w \in Windows |-> IF w \in sticky THEN joined(w) ELSE cc[w]]
      /\ normal' = [w \in Windows |->
                       IF w \in sticky /\ cc[w].records[g] # NoRect
                         THEN NormalAfter(cc'[w], normal[w]) ELSE normal[w]]
      /\ UNCHANGED <<session, placed, shared, forced>>
  BY DEF Switch, GroupOnly
<1>2. ASSUME NEW w \in Windows
      PROVE  /\ Changed(cc[w], joined(w)) /\ joined(w).records = cc[w].records
             /\ Bordered(cc[w]) => Bordered(joined(w))
             /\ IF "STICKY" \in cc[w].flags /\ cc[w].records[g] # NoRect
                  THEN Normally(cc[w], joined(w)) ELSE KeepsNormal(cc[w], joined(w))
  <2>1. cc[w] \in Client
    BY DEF GTypeOK
  <2> QED BY <2>1, JoinType
<1> HIDE DEF joined
<1>10. \A w \in Windows : cc'[w] = IF w \in sticky THEN joined(w) ELSE cc[w]
  BY <1>1
<1>3. \A w \in Windows : Changed(cc[w], cc'[w]) /\ cc'[w].records = cc[w].records
  BY <1>2, <1>10 DEF GTypeOK, Changed
<1>4. \A w \in Windows :
        IF w \in sticky /\ cc[w].records[g] # NoRect
          THEN Normally(cc[w], cc'[w]) ELSE KeepsNormal(cc[w], cc'[w])
  BY <1>2, <1>10 DEF KeepsNormal
<1>5. GTypeOK'
  <2>1. members' \in [Groups -> Seq(Windows)]
    <3>1. SetToSeq(sticky) \in Seq(Windows)
      BY SequenceOfSet
    <3>2. ASSUME NEW h \in Groups PROVE Keep(members[h], Windows \ sticky) \in Seq(Windows)
      <4>1. members[h] \in Seq(Windows)
        BY DEF GTypeOK
      <4> HIDE DEF sticky
      <4>2. Keep(members[h], Windows \ sticky) \in Seq(Windows \cap (Windows \ sticky))
        BY <4>1, KeepType
      <4> QED BY <4>2
    <3> HIDE DEF sticky
    <3>3. \A a, b \in Seq(Windows) : a \o b \in Seq(Windows)
      OBVIOUS
    <3>4. Keep(members[g], Windows \ sticky) \o SetToSeq(sticky) \in Seq(Windows)
      BY <3>1, <3>2, <3>3, Zenon
    <3> QED BY <1>1, <3>2, <3>4
  <2>2. cc' \in [Windows -> Client]
    <3>1. \A w \in Windows : joined(w) \in Client /\ cc[w] \in Client
      BY <1>2 DEF Changed, GTypeOK
    <3> HIDE DEF sticky
    <3> QED BY <1>1, <3>1
  <2>3. normal' \in [Windows -> Rects]
    <3>1. \A w \in Windows : cc'[w] \in Client /\ normal[w] \in Rects
      BY <2>2 DEF GTypeOK
    <3>2. \A w \in Windows : NormalAfter(cc'[w], normal[w]) \in Rects
      BY <3>1, NormalAfterIs
    <3> HIDE DEF sticky
    <3> QED BY <1>1, <3>1, <3>2
  <2> QED BY <1>1, <2>1, <2>2, <2>3 DEF GTypeOK
<1>6. PagerSeesState'
  BY <1>3 DEF PagerSeesState, Changed, Seen
<1>7. PlacedKept'
  BY <1>1, <1>3 DEF PlacedKept, Changed
<1>8. BorderKept'
  BY <1>1, <1>2, <1>10 DEF BorderKept
<1>9. SizesAgree => NormalKept'
  <2> SUFFICES ASSUME SizesAgree, NEW v \in Windows
               PROVE  /\ Steady(cc'[v].hint)
                      /\ \A h \in Starts : Fitting(cc'[v].hint, h)
                      /\ v \notin shared' => Kept(cc'[v], normal'[v])
    BY DEF NormalKept
  <2>1. /\ Steady(cc[v].hint) /\ \A h \in Starts : Fitting(cc[v].hint, h)
        /\ v \notin shared => Kept(cc[v], normal[v])
        /\ normal[v] \in Rects
    BY DEF NormalKept, GTypeOK
  <2>2. CASE v \in sticky /\ cc[v].records[g] # NoRect
    <3>1. Normally(cc[v], cc'[v]) /\ normal'[v] = NormalAfter(cc'[v], normal[v])
      BY <1>1, <1>4, <2>2
    <3> QED BY <1>1, <1>3, <2>1, <3>1 DEF Normally, Changed
  <2>3. CASE ~(v \in sticky /\ cc[v].records[g] # NoRect)
    <3>1. KeepsNormal(cc[v], cc'[v]) /\ normal'[v] = normal[v]
      BY <1>1, <1>4, <2>3
    <3> QED BY <1>1, <1>3, <2>1, <3>1 DEF KeepsNormal, Changed
  <2> QED BY <2>2, <2>3
<1> QED
  BY <1>5, <1>6, <1>7, <1>8, <1>9

\* The commands on one window
LEMMA WindowKeeps ==
  ASSUME GInv, NEW w \in Handled,
         \/ KbVmaximize(w) \/ KbHmaximize(w) \/ KbMaximize(w) \/ KbFullscreen(w)
         \/ KbBorder(w) \/ KbFreeze(w) \/ KbExpand(w)
         \/ \E action, atoms : MsgState(w, action, atoms)
  PROVE  GInv'
<1>1. w \in Windows /\ cc[w] \in Client /\ GTypeOK
  BY GeometryAssumption DEF GInv, GTypeOK
<1>2. ASSUME NEW c, Maximize(w, c), Preserved(cc[w], c)
      PROVE  GInv'
  <2> DEFINE S == {w} \cap Full \cap Thawed
  <2>1. Toggle(w, c, S, {}) /\ S \in SUBSET Windows
    BY <1>1, <1>2 DEF Maximize
  <2>2. w \notin S => Held(cc[w])
    BY <1>1 DEF Full, Thawed, Fullscreen, Frozen, Held
  <2> HIDE DEF S
  <2>3. w \notin S => KeepsNormal(cc[w], c)
    BY <1>2, <2>2 DEF Preserved
  <2>4. Changed(cc[w], c) /\ c.records = cc[w].records /\ (Bordered(cc[w]) => Bordered(c))
    BY <1>2, PreservedChanges
  <2> QED BY <1>1, <2>1, <2>3, <2>4, ToggleKeeps
<1>11. ASSUME NEW c, Toggle(w, c, {}, {}), Preserved(cc[w], c), KeepsNormal(cc[w], c)
       PROVE  GInv'
  BY <1>1, <1>11, PreservedChanges, ToggleKeeps
<1>3. CASE KbVmaximize(w)
  BY <1>1, <1>2, <1>3, VmaximizePreserves DEF KbVmaximize
<1>4. CASE KbHmaximize(w)
  BY <1>1, <1>2, <1>4, HmaximizePreserves DEF KbHmaximize
<1>5. CASE KbMaximize(w)
  BY <1>1, <1>2, <1>5, MaximizePreserves DEF KbMaximize
<1>6. CASE KbFullscreen(w)
  BY <1>1, <1>6, <1>11, FullscreenPreserves DEF KbFullscreen
<1>7. CASE KbBorder(w)
  BY <1>1, <1>7, <1>11, BorderPreserves DEF KbBorder
<1>8. CASE KbFreeze(w)
  <2> DEFINE c == ToggleFreeze(cc[w])
             none == {}
  <2>1. /\ c \in Client /\ (Seen(cc[w]) => Seen(c)) /\ Alike(c, cc[w], {"flags"})
        /\ {"STICKY", "IGNORE"} \cap c.flags = {"STICKY", "IGNORE"} \cap cc[w].flags
        /\ (Bordered(cc[w]) => Bordered(c)) /\ KeepsNormal(cc[w], c)
    BY <1>1, FreezePreserves
  <2>2. Toggle(w, c, none, none) /\ none \in SUBSET Windows
    BY <1>8 DEF KbFreeze
  <2> HIDE DEF c, none
  <2>3. c.records = cc[w].records /\ c.hint = cc[w].hint
    BY <2>1 DEF Alike
  <2>4. Changed(cc[w], c)
    BY <2>1, <2>3 DEF Changed
  <2> QED BY <1>1, <2>1, <2>2, <2>3, <2>4, ToggleKeeps
<1>9. CASE KbExpand(w)
  <2> DEFINE c == Expand(cc[w], OtherRects(w))
             S == {w} \cap Thawed
             F == {v \in {w} \cap Thawed : "EXPANDED" \in cc[v].flags
                                             /\ "BORDER" \notin cc[v].flags}
  <2>1. OtherRects(w) \in Seq(Rects)
    BY <1>1, OthersType
  <2>2. /\ Changed(cc[w], c) /\ c.records = cc[w].records
        /\ Frozen(w) => c = cc[w]
        /\ "EXPANDED" \notin cc[w].flags \/ "BORDER" \in cc[w].flags =>
             (Bordered(cc[w]) => Bordered(c))
    BY <1>1, <2>1, ExpandType DEF Changed, Frozen
  <2>3. Toggle(w, c, S, F) /\ S \in SUBSET Windows /\ F \in SUBSET Windows
    BY <1>1, <1>9 DEF KbExpand
  <2> HIDE DEF c
  <2>4. /\ w \notin S => Frozen(w)
        /\ w \notin F => \/ Frozen(w) \/ "EXPANDED" \notin cc[w].flags
                          \/ "BORDER" \in cc[w].flags
    BY <1>1 DEF Thawed
  <2> HIDE DEF S, F
  <2>5. w \notin S => KeepsNormal(cc[w], c)
    BY <2>2, <2>4 DEF KeepsNormal
  <2>6. w \notin F => (Bordered(cc[w]) => Bordered(c))
    BY <2>2, <2>4
  <2> QED BY <1>1, <2>2, <2>3, <2>5, <2>6, ToggleKeeps
<1>10. ASSUME NEW action, NEW atoms, MsgState(w, action, atoms)
       PROVE  GInv'
  BY <1>1, <1>2, <1>10, NetWmStatePreserves DEF MsgState
<1> QED
  BY <1>3, <1>4, <1>5, <1>6, <1>7, <1>8, <1>9, <1>10

\* The paths of the pointer.
LEMMA PathsType == Paths \subseteq Seq(Int \X Int)
<1> SUFFICES ASSUME NEW path \in Paths PROVE path \in Seq(Int \X Int)
  OBVIOUS
<1>1. Points \subseteq Int \X Int
  BY InputsAssumption
<1>2. CASE path = <<>>
  BY <1>2
<1>3. ASSUME NEW p \in Points, path = <<p>> PROVE path \in Seq(Int \X Int)
  BY <1>1, <1>3
<1>4. ASSUME NEW p \in Points, NEW q \in Points, path = <<p, q>>
      PROVE path \in Seq(Int \X Int)
  BY <1>1, <1>4
<1> QED
  BY <1>2, <1>3, <1>4 DEF Paths

\* The commands that place windows
LEMMA PlacesKeep ==
  ASSUME GInv, NEW w \in Handled,
         \/ \E d \in Amounts : KbMove(w, d) \/ KbResize(w, d)
         \/ \E path \in Paths : Drag(w, path) \/ Sweep(w, path)
         \/ \E dir \in {"up", "down", "left", "right"} : KbSnap(w, dir)
         \/ \E horizontal \in BOOLEAN : KbTile(w, horizontal)
         \/ \E mask \in Masks, g \in Starts, b \in {-1, 0} : AppConfigure(w, mask, g, b)
  PROVE  GInv'
<1>1. w \in Windows /\ cc[w] \in Client /\ GTypeOK
  BY GeometryAssumption DEF GInv, GTypeOK
<1>2. \A v \in Windows : cc[v] \in Client
  BY <1>1 DEF GTypeOK
<1>3. Amounts \subseteq Int \X Int /\ Starts \subseteq Rects
  BY InputsAssumption
<1>4. ASSUME NEW c, PlaceOne(w, c, {}), ~Frozen(w), Shifted(cc[w], c)
      PROVE  GInv'
  <2>1. c \in Client /\ c.records = cc[w].records
    BY <1>4 DEF Shifted, Alike
  <2>2. Settled(cc[w], c)
    BY <1>1, <1>4, ShiftSettles
  <2> QED BY <1>1, <1>4, <2>1, <2>2, SettledChanges, PlaceOneKeeps DEF Settled
<1>5. ASSUME NEW c, PlaceOne(w, c, {w} \cap Full), ~Frozen(w), Sized(cc[w], c)
      PROVE  GInv'
  <2> DEFINE S == {w} \cap Full
  <2>1. w \notin S => "FULLSCREEN" \notin cc[w].flags
    BY <1>1 DEF Full, Fullscreen
  <2>2. S \in SUBSET Windows /\ PlaceOne(w, c, S)
    BY <1>1, <1>5
  <2> HIDE DEF S
  <2>3. /\ c \in Client /\ Changed(cc[w], c) /\ c.records = cc[w].records
        /\ Bordered(cc[w]) => Bordered(c)
        /\ w \notin S => Normally(cc[w], c)
    BY <1>1, <1>5, <2>1, SizedSettles DEF Changed
  <2> QED BY <1>1, <1>5, <2>2, <2>3, PlaceOneKeeps
<1>6. ASSUME NEW d \in Amounts, KbMove(w, d) PROVE GInv'
  BY <1>1, <1>3, <1>4, <1>6, KeyMoveShifts DEF KbMove
<1>7. ASSUME NEW d \in Amounts, KbResize(w, d) PROVE GInv'
  BY <1>1, <1>3, <1>5, <1>7, KeyResizeSizes DEF KbResize, Frozen
<1>8. ASSUME NEW path \in Paths, Drag(w, path) PROVE GInv'
  BY <1>1, <1>4, <1>8, PathsType, MouseMoveShifts DEF Drag
<1>9. ASSUME NEW path \in Paths, Sweep(w, path) PROVE GInv'
  BY <1>1, <1>5, <1>9, PathsType, MouseResizeSizes DEF Sweep, Frozen
<1>10. ASSUME NEW dir \in {"up", "down", "left", "right"}, KbSnap(w, dir) PROVE GInv'
  <2> DEFINE a == Snap(w, dir)
             none == {}
  <2>1. /\ a \in [Windows -> Client]
        /\ \A v \in Windows : Settled(cc[v], a[v])
        /\ \A v \in Windows \ {w} : a[v].records = cc[v].records
        /\ a[w].records = IF TRUE /\ "STICKY" \in cc[w].flags
                            THEN [cc[w].records EXCEPT ![current] = a[w].geom]
                            ELSE cc[w].records
    BY <1>1, SnapSettles, ZenonT(60)
  <2>2. Place(w, a, TRUE, none, none) /\ none \in SUBSET Windows
    BY <1>10 DEF KbSnap
  <2> HIDE DEF a, none
  <2>3. \A v \in Windows : /\ Changed(cc[v], a[v])
                           /\ Bordered(cc[v]) => Bordered(a[v])
                           /\ Normally(cc[v], a[v])
    BY <2>1, SettledChanges DEF Settled
  <2> QED BY <1>1, <2>1, <2>2, <2>3, PlaceKeeps
<1>11. ASSUME NEW horizontal \in BOOLEAN, KbTile(w, horizontal) PROVE GInv'
  <2> DEFINE a == Tile(w, horizontal)
             T == ToSet(Tiled(w))
             S == ({w} \cup T) \cap Full
             F == {v \in T : "BORDER" \notin cc[v].flags}
  <2>1. /\ a \in [Windows -> Client]
        /\ \A v \in Windows :
             /\ Changed(cc[v], a[v]) /\ a[v].records = cc[v].records
             /\ v \notin T \/ "BORDER" \in cc[v].flags =>
                  (Bordered(cc[v]) => Bordered(a[v]))
             /\ v \notin {w} \cup T \/ "FULLSCREEN" \notin cc[v].flags =>
                  Normally(cc[v], a[v])
    BY <1>1, TileType
  <2>2. Place(w, a, FALSE, S, F)
    BY <1>11 DEF KbTile
  <2>3. T \subseteq Windows
    <3>1. Tiled(w) \in Seq(Windows)
      BY <1>1, OthersType
    <3> QED BY <3>1 DEF ToSet
  <2> HIDE DEF a, T
  <2>4. S \in SUBSET Windows /\ F \in SUBSET Windows
    BY <1>1, <2>3
  <2>5. \A v \in Windows \ F : Bordered(cc[v]) => Bordered(a[v])
    BY <2>1
  <2>6. \A v \in Windows \ S : Normally(cc[v], a[v])
    BY <2>1 DEF Full, Fullscreen
  <2> HIDE DEF S, F
  <2> QED BY <1>1, <2>1, <2>2, <2>4, <2>5, <2>6, PlaceKeeps
<1>12. ASSUME NEW mask \in Masks, NEW g \in Starts, NEW b \in {-1, 0},
              AppConfigure(w, mask, g, b)
       PROVE  GInv'
  <2> DEFINE d == Configure(cc[w], mask, g, b)
             a == [cc EXCEPT ![w] = d]
             F == IF b = -1 THEN {} ELSE {w}
  <2>1. /\ d \in Client
        /\ Alike(d, cc[w], {"geom", "xgeom", "bwidth", "xborder"})
        /\ b = -1 => d.bwidth = cc[w].bwidth /\ d.xborder = cc[w].xborder
    BY <1>1, <1>3, ConfigureType, SMTT(30)
  <2>2. Place(w, a, FALSE, {}, F) /\ F \in SUBSET Windows
    BY <1>1, <1>12 DEF AppConfigure, GTypeOK
  <2>3. SizesAgree => Normally(cc[w], d)
    BY <1>1, <1>3, ConfigureNormally DEF GInv, NormalKept
  <2> HIDE DEF d
  <2>4. /\ d.flags = cc[w].flags /\ d.hint = cc[w].hint /\ d.atoms = cc[w].atoms
        /\ d.records = cc[w].records
    BY <2>1 DEF Alike
  <2>5. /\ a \in [Windows -> Client] /\ a[w] = d
        /\ \A v \in Windows \ {w} : a[v] = cc[v]
    BY <1>1, <2>1 DEF GTypeOK
  <2> HIDE DEF a
  <2>6. Changed(cc[w], d) /\ \A v \in Windows : Changed(cc[v], cc[v])
    BY <1>2, <2>1, <2>4 DEF Changed, Seen
  <2>7. w \notin F => (Bordered(cc[w]) => Bordered(d))
    BY <2>1, <2>4 DEF Bordered
  <2> HIDE DEF F
  <2>8. \A v \in Windows : Changed(cc[v], a[v])
    BY <2>5, <2>6
  <2>9. \A v \in Windows \ F : Bordered(cc[v]) => Bordered(a[v])
    BY <2>5, <2>7
  <2>10. SizesAgree => \A v \in Windows : Normally(cc[v], a[v])
    BY <1>2, <2>3, <2>5, SettledRefl DEF Settled
  <2>11. /\ \A v \in Windows \ {w} : a[v].records = cc[v].records
         /\ a[w].records = cc[w].records
    BY <2>4, <2>5
  <2> QED BY <1>1, <2>2, <2>5, <2>8, <2>9, <2>10, <2>11, PlaceKeeps
<1> QED
  BY <1>6, <1>7, <1>8, <1>9, <1>10, <1>11, <1>12

\* Every step keeps the invariant.
LEMMA NextGInv == GInv /\ [GNext]_gvars => GInv'
<1> SUFFICES ASSUME GInv, [GNext]_gvars PROVE GInv'
  OBVIOUS
<1>1. CASE UNCHANGED gvars
  <2>1. UNCHANGED <<cc, members, current, session, normal, placed, shared, forced>>
    BY <1>1 DEF gvars
  <2> QED
    BY <2>1 DEF GInv, GTypeOK, PagerSeesState, PlacedKept, BorderKept, NormalKept
<1>2. ASSUME NEW w \in Handled, KbSticky(w) PROVE GInv'
  BY <1>2, StickyKeeps, GeometryAssumption
<1>3. ASSUME NEW g \in Groups, Switch(g) PROVE GInv'
  BY <1>3, SwitchKeeps
<1>4. ASSUME NEW w \in Handled,
             \/ KbVmaximize(w) \/ KbHmaximize(w) \/ KbMaximize(w) \/ KbFullscreen(w)
             \/ KbBorder(w) \/ KbFreeze(w) \/ KbExpand(w) \/ KbSticky(w)
             \/ \E action \in {"add", "remove", "toggle"},
                  atoms \in {MAXIMIZED, {"VMAX"}, {"HMAX", "FULLSCREEN"}} :
                    MsgState(w, action, atoms)
      PROVE  GInv'
  BY <1>2, <1>4, WindowKeeps
<1> QED
  BY <1>1, <1>3, <1>4, PlacesKeep DEF GNext

----------------------------------------------------------------------------
(* The theorems.                                                           *)

\* The inductive invariant of the geometry: types, states as shown, borders, and
\* normal geometries as the hints allow.
THEOREM GInvHolds == GSpec => []GInv
<1> QED
  BY InitGInv, NextGInv, PTL DEF GSpec

\* Every client record, its window on the server and what a user has asked for
\* keep their types through every command, message and request.
THEOREM GTypeCorrect == GSpec => []GTypeOK
<1>1. GInv => GTypeOK
  BY DEF GInv
<1> QED
  BY <1>1, GInvHolds, PTL

\* _NET_WM_STATE is what the flags of a client say, FULLSCREEN hiding the
\* maximised states, after any sequence of commands, pager messages and
\* switches of groups: every change of a flag that a pager sees is followed by
\* xu_ewmh_set_net_wm_state.
THEOREM PagersSeeStates == GSpec => []PagerSeesState
<1>1. GInv => PagerSeesState
  BY DEF GInv
<1> QED
  BY <1>1, GInvHolds, PTL

\* Outside fullscreen a window has a border if and only if CLIENT_BORDER is set,
\* through every command, message and switch of groups, of the windows that are
\* not ignored and were not given a border by their application
\* (xev_handle_configurerequest), by client_htile and client_vtile when the flag
\* was off, or by client_expand in the same way (forced).
THEOREM BordersAreAsked == GSpec => []BorderIsAsked
<1>1. GInv => BorderIsAsked
  BY DEF GInv, BorderKept, Bordered, BorderIsAsked, Fullscreen
<1> QED
  BY <1>1, GInvHolds, PTL

\* A window that is maximised on an axis no more is where it was last put on it,
\* through every command, message and switch of groups, if the size hints agree
\* with the sizes they are applied to, and if it was neither expanded nor, in
\* fullscreen, maximised, resized or tiled (shared).
THEOREM NormalsAreKept == SizesAgree => (GSpec => []NormalIsKept)
<1>1. SizesAgree /\ GInv => NormalIsKept
  BY DEF GInv, NormalKept, Kept, NormalIsKept, Fullscreen
<1>2. ASSUME SizesAgree PROVE GInv => NormalIsKept
  BY <1>1, <1>2
<1>3. ASSUME SizesAgree PROVE GSpec => []NormalIsKept
  BY <1>2, <1>3, GInvHolds, PTL
<1> QED
  BY <1>3

\* client_restore_geom puts a sticky client where it was last put by hand in
\* the group that group_only shows.
THEOREM StickiesReturn == GSpec => StickyReturns
<1> DEFINE Returns ==
      current' # current =>
        \A w \in Windows :
          placed[w][current'] # NoRect =>
            cc'[w].geom = ApplySizeHints(cc[w].hint, placed[w][current'])
<1>1. GInv /\ [GNext]_gvars => [Returns]_gvars
  <2> SUFFICES ASSUME GInv, GNext, current' # current,
                      NEW w \in Windows, placed[w][current'] # NoRect
               PROVE  cc'[w].geom = ApplySizeHints(cc[w].hint, placed[w][current'])
    OBVIOUS
  <2>1. PICK g \in Groups : Switch(g)
    <3>1. \A v \in Windows : \A c, shares, forces :
            Toggle(v, c, shares, forces) => current' = current
      BY DEF Toggle
    <3>2. \A v, after, byhand, shares, forces :
            Place(v, after, byhand, shares, forces) => current' = current
      BY DEF Place
    <3>3. ASSUME NEW v \in Handled,
                 \/ KbVmaximize(v) \/ KbHmaximize(v) \/ KbMaximize(v)
                 \/ KbFullscreen(v) \/ KbBorder(v) \/ KbFreeze(v) \/ KbExpand(v)
                 \/ KbSticky(v)
                 \/ \E action, atoms : MsgState(v, action, atoms)
          PROVE  current' = current
      BY <3>1, <3>3, GeometryAssumption, Zenon
         DEF KbVmaximize, KbHmaximize, KbMaximize, KbFullscreen, KbBorder,
             KbFreeze, KbExpand, KbSticky, MsgState, Maximize
    <3>4. ASSUME NEW v \in Handled,
                 \/ \E d : KbMove(v, d) \/ KbResize(v, d)
                 \/ \E path : Drag(v, path) \/ Sweep(v, path)
                 \/ \E dir : KbSnap(v, dir)
                 \/ \E horizontal : KbTile(v, horizontal)
                 \/ \E mask, g, b : AppConfigure(v, mask, g, b)
          PROVE  current' = current
      BY <3>2, <3>4, Zenon
         DEF KbMove, KbResize, Drag, Sweep, KbSnap, KbTile, AppConfigure, PlaceOne
    <3> QED
      BY <3>3, <3>4, Zenon DEF GNext
  <2>2. /\ current' = g
        /\ "STICKY" \in cc[w].flags =>
             cc'[w] = RestoreGeom(DrawBorder([cc[w] EXCEPT !.group = g]), g)
    BY <2>1 DEF Switch, GroupOnly
  <2>3. "STICKY" \in cc[w].flags /\ cc[w].records[g] = placed[w][g]
    BY <2>2 DEF GInv, PlacedKept
  <2>4. cc[w] \in Client
    BY DEF GInv, GTypeOK
  <2> QED
    BY <2>2, <2>3, <2>4, JoinType
<1>2. GSpec => [][GNext]_gvars
  BY DEF GSpec
<1>3. GSpec => [][Returns]_gvars
  BY <1>1, <1>2, GInvHolds, PTL
<1> QED
  BY <1>3 DEF StickyReturns

=============================================================================
