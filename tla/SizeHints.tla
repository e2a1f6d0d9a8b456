----------------------------- MODULE SizeHints -----------------------------
(***************************************************************************)
(* The arithmetic of sizes and positions in client.c and mousefunc.c, as   *)
(* operators on rectangles: size hints, placement, snapping and sweeping.  *)
(* A rectangle is [x, y, w, h].  The two aspect limits, floats in the      *)
(* code, are fractions <<n, d>>; <<0, 1>> is "no limit".                   *)
(***************************************************************************)
EXTENDS Integers

Abs(n) == IF n < 0 THEN -n ELSE n
Larger(a, b) == IF a < b THEN b ELSE a
Smaller(a, b) == IF a < b THEN a ELSE b

\* The / and % of C, which round towards zero
CDiv(a, b) == IF (a < 0) = (b < 0) THEN Abs(a) \div Abs(b)
              ELSE -(Abs(a) \div Abs(b))
CMod(a, b) == IF a < 0 THEN -((-a) % b) ELSE a % b

Rect(x, y, w, h) == [x |-> x, y |-> y, w |-> w, h |-> h]

----------------------------------------------------------------------------
(* Size hints.                                                             *)

NoHints == [basew |-> 0, baseh |-> 0, minw |-> 0, minh |-> 0,
            maxw |-> 0, maxh |-> 0, incw |-> 1, inch |-> 1,
            mina |-> <<0, 1>>, maxa |-> <<0, 1>>]

\* What hints may hold: limits on the aspect are fractions
Hints == [basew : Int, baseh : Int, minw : Int, minh : Int, maxw : Int, maxh : Int,
          incw : Nat \ {0}, inch : Nat \ {0},
          mina : Int \X (Nat \ {0}), maxa : Int \X (Nat \ {0})]

\* client_getsizehints: size is what WM_NORMAL_HINTS holds, hint what cwm knew
GetSizeHints(hint, size) ==
  LET Given(f) == f \in size.flags
      base == IF Given("PBaseSize") THEN size.base
              ELSE IF Given("PMinSize") THEN size.min
              ELSE <<hint.basew, hint.baseh>>
      min  == IF Given("PMinSize") THEN size.min
              ELSE IF Given("PBaseSize") THEN size.base
              ELSE <<hint.minw, hint.minh>>
      max  == IF Given("PMaxSize") THEN size.max ELSE <<hint.maxw, hint.maxh>>
      inc  == IF Given("PResizeInc") THEN size.inc ELSE <<hint.incw, hint.inch>>
  IN [basew |-> base[1], baseh |-> base[2], minw |-> min[1], minh |-> min[2],
      maxw |-> max[1], maxh |-> max[2],
      incw |-> Larger(1, inc[1]), inch |-> Larger(1, inc[2]),
      mina |-> IF Given("PAspect") /\ size.min_aspect[1] > 0
                 THEN <<size.min_aspect[2], size.min_aspect[1]>> ELSE hint.mina,
      maxa |-> IF Given("PAspect") /\ size.max_aspect[2] > 0
                 THEN size.max_aspect ELSE hint.maxa]

\* The quotient a/b, of floats, is greater than the fraction q
Exceeds(a, b, q) ==
  IF b > 0 THEN a * q[2] > b * q[1]
  ELSE IF b = 0 THEN a > 0
  ELSE a * q[2] < b * q[1]

\* The aspect limits, on a size without its base
Aspect(hint, w, h) ==
  IF hint.mina[1] = 0 \/ hint.maxa[1] = 0 THEN <<w, h>>
  ELSE IF Exceeds(w, h, hint.maxa)
    THEN <<CDiv(h * hint.maxa[1], hint.maxa[2]), h>>
  ELSE IF Exceeds(h, w, hint.mina)
    THEN <<w, CDiv(w * hint.mina[1], hint.mina[2])>>
  ELSE <<w, h>>

\* Mutant of Fit: the bounds in the other order
FitMaxFirst(v, base, min, max, inc) ==
  LET t == v - CMod(v - base, inc)
  IN Larger(Larger(IF max # 0 THEN Smaller(t, max) ELSE t, min), 1)

\* Increment, then minimum, then maximum, of one dimension
Fit(v, base, min, max, inc) ==
  LET t == v - CMod(v - base, inc)
      u == Larger(t, min)
  IN Larger(IF max # 0 THEN Smaller(u, max) ELSE u, 1)

\* client_applysizehints
ApplySizeHints(hint, g) ==
  LET baseismin == hint.basew = hint.minw /\ hint.baseh = hint.minh
      bw == IF baseismin THEN 0 ELSE hint.basew
      bh == IF baseismin THEN 0 ELSE hint.baseh
      a  == Aspect(hint, g.w - bw, g.h - bh)
  IN [g EXCEPT
        !.w = Fit(a[1] + bw, hint.basew, hint.minw, hint.maxw, hint.incw),
        !.h = Fit(a[2] + bh, hint.baseh, hint.minh, hint.maxh, hint.inch)]

----------------------------------------------------------------------------
(* Positions.                                                              *)

\* client_inbound, with the point relative to the window
Inbound(g, x, y) == x < g.w /\ x >= 0 /\ y < g.h /\ y >= 0

\* client_snapcalc: n0 and n1 are the edges of the window, e0 and e1 those of
\* the region
Snapcalc(n0, n1, e0, e1, snapdist) ==
  LET s0 == IF Abs(e0 - n0) <= snapdist THEN e0 - n0 ELSE 0
      s1 == IF Abs(e1 - n1) <= snapdist THEN e1 - n1 ELSE 0
  IN IF s0 # 0 /\ (s1 = 0 \/ Abs(s0) < Abs(s1)) THEN s0 ELSE s1

\* A rectangle with a border of width b, moved by what both axes snap to
Snapped(g, b, region, snapdist) ==
  [g EXCEPT
     !.x = @ + Snapcalc(@, @ + g.w + 2 * b, region.x, region.x + region.w,
                        snapdist),
     !.y = @ + Snapcalc(@, @ + g.h + 2 * b, region.y, region.y + region.h,
                        snapdist)]

\* client_placecalc with a position in the hints; view is the whole display
PlaceByHints(g, b, view) ==
  [g EXCEPT !.x = Smaller(@, view.w - g.w - 2 * b),
            !.y = Smaller(@, view.h - g.h - 2 * b)]

\* One axis of client_placecalc without: e0 .. e1 is the region, m the pointer
PlaceAxis(m, size, b, e0, e1) ==
  LET at    == Larger(Larger(m, e0) - CDiv(size, 2), e0)
      slack == e1 - size - 2 * b
  IN IF slack >= e0 THEN <<Larger(Smaller(at, slack), e0), size>>
                    ELSE <<e0, e1>>

\* client_placecalc at the pointer
PlaceByPointer(g, b, region, mx, my) ==
  LET h == PlaceAxis(mx, g.w, b, region.x, region.x + region.w)
      v == PlaceAxis(my, g.h, b, region.y, region.y + region.h)
  IN Rect(h[1], v[1], h[2], v[2])

\* mousefunc_sweep_calc: from the corner x, y to the pointer mx, my
SweepCalc(hint, g, b, x, y, mx, my) ==
  LET f == ApplySizeHints(hint, [g EXCEPT !.w = Abs(x - mx) - b,
                                          !.h = Abs(y - my) - b])
  IN [f EXCEPT !.x = IF x <= mx THEN x ELSE x - f.w,
               !.y = IF y <= my THEN y ELSE y - f.h]

============================================================================
